---- MODULE Spec2Model ----
(***************************************************************************)
(* Model of the clopts command-line option parser (include/clopts.hh).     *)
(*                                                                         *)
(* Strings are sequences of one-character strings, so that starts_with,    *)
(* substr and the numeric parse are computed as the code computes them.    *)
(* An option set (the template arguments of clopts<...>) is a sequence of  *)
(* descriptor records in declaration order plus the list of stop_parsing<> *)
(* literals.  One parse session is the state machine                       *)
(*     idle -> scan -> (stopped | failed | done)                           *)
(* with one step per iteration of the main parser loop.                    *)
(***************************************************************************)
EXTENDS Integers, Sequences, FiniteSets, TLC

VARIABLES cfg, argc, argv, argi, opts_found, optvals, has_error,
          unprocessed_args, pc, log,
          declared,   \* the template arguments of clopts<...>, as written
          failed,     \* the static assertions of clopts_impl that fail for them
          prev,       \* the call and the result of the previous parse, if any
          help_text   \* what the last call of help() returned, if any

vars == <<cfg, argc, argv, argi, opts_found, optvals, has_error,
          unprocessed_args, pc, log, declared, failed, prev, help_text>>

(***************************************************************************)
(* Bounds of the model.                                                    *)
(***************************************************************************)
\* Largest number of tokens after the program name.
MaxArgs == 4
\* Number of handler verdicts drawn for one iteration of the parser loop.
MaxErrorsPerToken == 3
\* Width of the integer type (int64_t / unsigned long long in the source).
IntBits == 4
\* Width of std::size_t, used for the length of the unprocessed span.
SizeBits == 8

(***************************************************************************)
(* Strings.                                                                *)
(***************************************************************************)
starts_with(s, p) == Len(p) <= Len(s) /\ SubSeq(s, 1, Len(p)) = p

\* std::string_view::substr(pos): pos is a 0-based offset.
substr(s, pos) == SubSeq(s, pos + 1, Len(s))

\* std::string_view::substr(0, n).
substr_n(s, n) == SubSeq(s, 1, n)

Digit == <<"0", "1", "2", "3", "4", "5", "6", "7", "8", "9">>

IsDigit(c) == \E k \in 1..10 : Digit[k] = c

DigitVal(c) == (CHOOSE k \in 1..10 : Digit[k] = c) - 1

IsSpace(c) == c = " "

RECURSIVE Pow2(_)
Pow2(n) == IF n = 0 THEN 1 ELSE 2 * Pow2(n - 1)

ULLONG_MAX == Pow2(IntBits) - 1

(***************************************************************************)
(* Descriptors: option<>, overridable<>, positional<>, flag<>, multiple<>, *)
(* short_option<>, values<>, ref<>, func<>.                                *)
(* kind is the single element type: "string", "int", "flag" (bool),        *)
(* "func_noarg" (callback_noarg_type) or "func_arg" (callback_arg_type).   *)
(***************************************************************************)
option(name, kind, required, overridable_) ==
    [name |-> name, kind |-> kind,
     is_required |-> required, is_overridable |-> overridable_,
     is_multiple |-> FALSE, is_positional |-> FALSE, is_short |-> FALSE,
     is_values |-> FALSE, values |-> <<>>,
     is_ref |-> FALSE, refs |-> <<>>,
     is_help_option |-> FALSE,
     description |-> <<>>]

\* The same option with the description text given.
described(opt, description) == [opt EXCEPT !.description = description]

\* help<>: func<"--help", "Print this help information", [] {}>
help_option ==
    [option(<<"-", "-", "h", "e", "l", "p">>, "func_noarg", FALSE, FALSE)
       EXCEPT !.is_help_option = TRUE,
              !.description = <<"P", "r", "i", "n", "t", " ", "t", "h", "i", "s", " ", "h", "e", "l", "p", " ", "i", "n", "f", "o", "r", "m", "a", "t", "i", "o", "n">>]

overridable(name, kind, required) == option(name, kind, required, TRUE)

positional(name, kind, required) ==
    [option(name, kind, required, FALSE) EXCEPT !.is_positional = TRUE]

flag(name) == option(name, "flag", FALSE, FALSE)

multiple(opt) == [opt EXCEPT !.is_multiple = TRUE, !.is_overridable = FALSE]

short_option(name, kind, required, overridable_) ==
    [option(name, kind, required, overridable_) EXCEPT !.is_short = TRUE]

\* option<name, descr, values<...>>: kind is the type of the listed values.
values(opt, data) == [opt EXCEPT !.is_values = TRUE, !.values = data]

\* option<name, descr, ref<type, names...>>.
ref(opt, names) == [opt EXCEPT !.is_ref = TRUE, !.refs = names]

func(name, kind) == option(name, kind, FALSE, FALSE)

is_flag(o) == o.kind = "flag"

is_callback(o) == o.kind \in {"func_noarg", "func_arg"}

has_argument(o) == o.kind \notin {"flag", "func_noarg"}

(***************************************************************************)
(* Option sets.  A configuration is the regular options in declaration     *)
(* order (opts), the stop_parsing<> literals (special) and the tokens an   *)
(* argv is drawn from.                                                     *)
(***************************************************************************)
\* positional<"a">, positional<"b", int64_t>, option<"-s">, overridable<"-o">
CfgMix ==
    [opts |-> << positional(<<"a">>, "string", FALSE),
                 positional(<<"b">>, "int", FALSE),
                 option(<<"-", "s">>, "string", FALSE, FALSE),
                 overridable(<<"-", "o">>, "string", FALSE) >>,
     special |-> <<>>,
     tokens |-> { <<>>, <<"h">>, <<"4">>, <<"-", "s">>,
                  <<"-", "o">>, <<"-", "o", "=">> }]

\* overridable<"-x">, multiple<option<"-m", int64_t>>,
\* multiple<option<"-y", ref<std::string, "-x", "-m">>>
CfgRef ==
    [opts |-> << overridable(<<"-", "x">>, "string", FALSE),
                 multiple(option(<<"-", "m">>, "int", FALSE, FALSE)),
                 multiple(ref(option(<<"-", "y">>, "string", FALSE, FALSE),
                              << <<"-", "x">>, <<"-", "m">> >>)) >>,
     special |-> <<>>,
     tokens |-> { <<"-", "x", "=", "1">>, <<"-", "x", "=", "2">>,
                  <<"-", "m", "=", "1">>, <<"-", "m", "=", "2">>,
                  <<"-", "y", "=", "a">>, <<"-", "y">> }]

\* option<"-f", string, required>, option<"-n", int64_t, required>,
\* stop_parsing<"--">
CfgStop ==
    [opts |-> << option(<<"-", "f">>, "string", TRUE, FALSE),
                 option(<<"-", "n">>, "int", TRUE, FALSE) >>,
     special |-> << <<"-", "-">> >>,
     tokens |-> { <<"-", "f">>, <<"-", "f", "=", "a">>,
                  <<"-", "n", "=", "4">>, <<"-", "n", "=", "z">>,
                  <<"-", "-">>, <<"-", "b">> }]

\* option<"-x">, option<"-xyz">
CfgPrefixA ==
    [opts |-> << option(<<"-", "x">>, "string", FALSE, FALSE),
                 option(<<"-", "x", "y", "z">>, "string", FALSE, FALSE) >>,
     special |-> <<>>,
     tokens |-> { <<"-", "x", "y", "z">>, <<"-", "x", "=", "5">>,
                  <<"-", "x", "y", "z", "=", "1">>, <<"-", "x">>, <<"5">> }]

\* option<"-xyz">, option<"-x">
CfgPrefixB ==
    [opts |-> << option(<<"-", "x", "y", "z">>, "string", FALSE, FALSE),
                 option(<<"-", "x">>, "string", FALSE, FALSE) >>,
     special |-> <<>>,
     tokens |-> CfgPrefixA.tokens]

\* multiple<positional<"p", values<2, 3, 5, 7>>>,
\* overridable<"-v", values<2, 3, 5, 7>>
CfgValues ==
    [opts |-> << multiple(values(positional(<<"p">>, "int", FALSE), <<2, 3, 5, 7>>)),
                 values(overridable(<<"-", "v">>, "int", FALSE), <<2, 3, 5, 7>>) >>,
     special |-> <<>>,
     tokens |-> { <<"4">>, <<"7">>, <<"-", "v", "=", "4">>,
                  <<"-", "v", "=", "7">>, <<"-", "v">> }]

\* overridable<"-n", int64_t>, with values at and beyond both ends of the
\* signed and of the unsigned range of IntBits bits.
CfgInt ==
    [opts |-> << overridable(<<"-", "n">>, "int", FALSE) >>,
     special |-> <<>>,
     tokens |-> { <<"-", "n", "=", "7">>, <<"-", "n", "=", "8">>,
                  <<"-", "n", "=", "1", "6">>, <<"-", "n", "=", "-", "8">>,
                  <<"-", "n", "=", "-", "9">> }]

\* flag<"-g">, func<"-c", cb>, func<"-k", cb_with_argument>
CfgFlag ==
    [opts |-> << flag(<<"-", "g">>),
                 func(<<"-", "c">>, "func_noarg"),
                 func(<<"-", "k">>, "func_arg") >>,
     special |-> <<>>,
     tokens |-> { <<"-", "g">>, <<"-", "g", "=", "1">>, <<"-", "c">>,
                  <<"-", "c", "x">>, <<"-", "k", "=", "1">>, <<"-", "k">> }]

\* short_option<"-x">, short_option<"n", int64_t>
CfgShort ==
    [opts |-> << short_option(<<"-", "x">>, "string", FALSE, FALSE),
                 short_option(<<"n">>, "int", FALSE, FALSE) >>,
     special |-> <<>>,
     tokens |-> { <<"-", "x", "v">>, <<"-", "x", "=", "v">>, <<"-", "x">>,
                  <<"n", "4">> }]

\* option<"-s">, option<"-i", int64_t>, option<"-e", values<"">>
CfgEmpty ==
    [opts |-> << option(<<"-", "s">>, "string", FALSE, FALSE),
                 option(<<"-", "i">>, "int", FALSE, FALSE),
                 values(option(<<"-", "e">>, "string", FALSE, FALSE), << <<>> >>) >>,
     special |-> <<>>,
     tokens |-> { <<"-", "s", "=">>, <<"-", "e", "=">>, <<"-", "i", "=">>,
                  <<"-", "i", "=", "4", "z">> }]

\* overridable<"-d", double>
CfgDouble ==
    [opts |-> << overridable(<<"-", "d">>, "double", FALSE) >>,
     special |-> <<>>,
     tokens |-> { <<"-", "d", "=">>, <<"-", "d", "=", "1", ".", "5">>,
                  <<"-", "d", "=", "1", ".", "5", "z">> }]

\* positional<"a">, multiple<positional<"m">>, positional<"c">, flag<"-g">
CfgPos ==
    [opts |-> << positional(<<"a">>, "string", FALSE),
                 multiple(positional(<<"m">>, "string", FALSE)),
                 positional(<<"c">>, "string", FALSE),
                 flag(<<"-", "g">>) >>,
     special |-> <<>>,
     tokens |-> { <<"h">>, <<"k">>, <<"-", "g">> }]

Configs == << CfgMix, CfgRef, CfgStop, CfgPrefixA, CfgPrefixB, CfgValues, CfgInt,
              CfgFlag, CfgShort, CfgEmpty, CfgDouble, CfgPos >>

Opts == Configs[cfg].opts

Special == Configs[cfg].special

NumOpts == Len(Opts)

has_stop_parsing == Len(Special) > 0

\* All sequences of at most n tokens.
RECURSIVE SeqsUpTo(_, _)
SeqsUpTo(T, n) ==
    IF n = 0 THEN { <<>> }
    ELSE LET S == SeqsUpTo(T, n - 1)
         IN S \cup { Append(a, t) : a \in {b \in S : Len(b) = n - 1}, t \in T }

(***************************************************************************)
(* Validation: the static assertions of clopts_impl, evaluated when        *)
(* clopts<...> is instantiated, on the regular options only.               *)
(***************************************************************************)
\* stop_parsing<name>: an option whose type is special_tag.
stop_parsing_option(name) == option(name, "special", FALSE, FALSE)

regular_option(o) == o.kind # "special"

special_option(o) == ~regular_option(o)

\* filter<regular_option, opts...>: the regular descriptors, in order.
filter_regular_option(D) == SelectSeq(D, regular_option)

\* filter<special_option, opts...>
filter_special_option(D) == SelectSeq(D, special_option)

\* While<opts...> over While<opts...>: ok = i == j or opt::name != opt2::name,
\* both loops ending at the first pair for which ok is false.
check_duplicate_options(O) ==
    \A i \in 1..Len(O) : \A j \in 1..Len(O) : i = j \/ O[i].name # O[j].name

check_short_opts(O) ==
    \A i \in 1..Len(O) : \A j \in 1..Len(O) :
        i = j \/ ~O[i].is_short \/ ~starts_with(O[j].name, O[i].name)

\* The number of multiple<positional<>> options.
validate_multiple(O) ==
    Cardinality({ i \in 1..Len(O) : O[i].is_multiple /\ O[i].is_positional })

\* Mutant: a referenced name only has to exist.
validate_references_impl_exists(O, references) ==
    \A k \in 1..Len(references) :
        \E i \in 1..Len(O) : O[i].name = references[k]

\* ValidateReference for every name of the ref<>: some option has that name
\* and is not a ref<> option.
validate_references_impl(O, references) ==
    \A k \in 1..Len(references) :
        \E i \in 1..Len(O) : O[i].name = references[k] /\ ~O[i].is_ref

validate_references(O) ==
    \A i \in 1..Len(O) : O[i].is_ref => validate_references_impl(O, O[i].refs)

\* The messages of the static assertions that fail for the regular options O.
static_asserts(O) ==
    (IF Len(O) > 0 THEN {} ELSE {"At least one option is required"})
    \cup (IF check_duplicate_options(O) THEN {}
          ELSE {"Two different options may not have the same name"})
    \cup (IF check_short_opts(O) THEN {}
          ELSE {"Option name may not start with the name of a short option"})
    \cup (IF validate_multiple(O) <= 1 THEN {}
          ELSE {"Cannot have more than one multiple<positional<>> option"})
    \cup (IF validate_references(O) THEN {}
          ELSE {"All options with a ref<> type must reference an existing non-ref option"})

\* clopts<opts...>: clopts_impl over the regular options.
clopts(D) == static_asserts(filter_regular_option(D))

\* The template arguments a configuration stands for.
Declaration(c) ==
    c.opts \o [k \in 1..Len(c.special) |-> stop_parsing_option(c.special[k])]

(***************************************************************************)
(* Option access by name and option storage.                               *)
(***************************************************************************)
\* optindex_impl: the first option with that name.
optindex(O, name) ==
    CHOOSE i \in 1..Len(O) :
        /\ O[i].name = name
        /\ \A j \in 1..(i - 1) : O[j].name # name

opt_by_name(O, name) == O[optindex(O, name)]

\* A value-initialised element of the option's single element type.
DefaultElement(o) ==
    CASE o.kind = "int" -> 0
      [] o.kind = "string" -> <<>>
      [] o.kind = "double" -> [mant |-> 0, scale |-> 0]
      [] o.kind = "flag" -> FALSE
      [] OTHER -> "nullptr"

\* ref_storage_type_t: bool for a flag, the vector for a multiple<> option,
\* otherwise an optional (<<>> is nullopt, <<v>> holds v).
DefaultRefStorage(r) ==
    IF is_flag(r) THEN FALSE ELSE <<>>

\* storage_type of one element: the value, or the tuple of a ref<> option.
DefaultSingleStorage(O, o) ==
    IF o.is_ref
    THEN <<DefaultElement(o)>>
         \o [k \in 1..Len(o.refs) |-> DefaultRefStorage(opt_by_name(O, o.refs[k]))]
    ELSE DefaultElement(o)

\* optvals_tuple_t{}: every cell value-initialised.
storage_type(O) ==
    [i \in 1..Len(O) |->
        IF O[i].is_multiple THEN <<>> ELSE DefaultSingleStorage(O, O[i])]

found(self, O, name) == self.opts_found[optindex(O, name)]

set_found(self, O, name) ==
    [self EXCEPT !.opts_found[optindex(O, name)] = TRUE]

\* Mutant: a multiple<> value is put in front of the list.
store_option_value_front(is_multiple, cell, value) ==
    IF is_multiple THEN <<value>> \o cell ELSE value

store_option_value(is_multiple, cell, value) ==
    IF is_multiple THEN Append(cell, value) ELSE value

\* Mutant: a pointer to the cell is returned whether or not the option was
\* found.
get_impl_unchecked(v, O, name) ==
    IF is_flag(opt_by_name(O, name)) THEN v.opts_found[optindex(O, name)]
    ELSE IF opt_by_name(O, name).is_multiple THEN v.optvals[optindex(O, name)]
    ELSE <<v.optvals[optindex(O, name)]>>

\* optvals_type::get_impl<s>(): v is the optvals_type object.  The found bit
\* for a flag, the vector for a multiple<> option, otherwise nullptr (<<>>)
\* or a pointer to the cell (<<cell>>).  (get<> of a func<> option does not compile.)
get_impl(v, O, name) ==
    IF is_flag(opt_by_name(O, name)) THEN v.opts_found[optindex(O, name)]
    ELSE IF opt_by_name(O, name).is_multiple THEN v.optvals[optindex(O, name)]
    ELSE IF ~v.opts_found[optindex(O, name)] THEN <<>>
    ELSE <<v.optvals[optindex(O, name)]>>

(***************************************************************************)
(* Errors and callbacks.  Every call of the error handler and of an        *)
(* option callback is appended to the log, with the argv index of the      *)
(* token whose iteration raised it (0 for the required check); so is the   *)
(* match of a stop_parsing<> literal.                                      *)
(***************************************************************************)
Event(ev, kind, opt, at, verdict, name, val) ==
    [ev |-> ev, kind |-> kind, opt |-> opt, at |-> at, verdict |-> verdict,
     name |-> name, val |-> val]

\* has_error = not error_handler(msg).  self.error_handler holds the verdicts
\* the handler gives to the successive errors of this step, self.nv how many
\* of them have been given.
handle_error(self, kind, opt) ==
    LET verdict == self.error_handler[self.nv + 1]
    IN [self EXCEPT !.has_error = ~verdict,
                    !.nv = @ + 1,
                    !.log = Append(@, Event("error", kind, opt, self.tok,
                                            verdict, <<>>, <<>>))]

callback(self, opt, opt_str, opt_val) ==
    [self EXCEPT !.log = Append(@, Event("callback", "", opt, self.tok,
                                         TRUE, opt_str, opt_val))]

(***************************************************************************)
(* Value conversion.                                                       *)
(***************************************************************************)
RECURSIVE SkipSpace(_, _)
SkipSpace(s, i) ==
    IF i <= Len(s) /\ IsSpace(s[i]) THEN SkipSpace(s, i + 1) ELSE i

\* The digit run of strtoull: acc saturates once it exceeds ULLONG_MAX.
RECURSIVE ScanDigits(_, _, _, _)
ScanDigits(s, i, acc, overflow) ==
    IF i <= Len(s) /\ IsDigit(s[i])
    THEN LET next == acc * 10 + DigitVal(s[i])
         IN IF overflow \/ next > ULLONG_MAX
            THEN ScanDigits(s, i + 1, ULLONG_MAX, TRUE)
            ELSE ScanDigits(s, i + 1, next, FALSE)
    ELSE [pos |-> i, acc |-> acc, overflow |-> overflow]

\* std::strtoull(s, &pos, 10): val is the unsigned result, pos the 1-based
\* index of the first unparsed character, erange whether errno is ERANGE.
\* r is the digit run that starts at index d; neg whether a '-' precedes it.
strtoull_result(neg, d, r) ==
    IF r.pos = d THEN [val |-> 0, pos |-> 1, erange |-> FALSE]
    ELSE IF r.overflow THEN [val |-> ULLONG_MAX, pos |-> r.pos, erange |-> TRUE]
    ELSE [val |-> IF neg THEN (Pow2(IntBits) - r.acc) % Pow2(IntBits) ELSE r.acc,
          pos |-> r.pos, erange |-> FALSE]

\* b is the index of the first character that is not white space.
strtoull_sign(s, b) ==
    IF b <= Len(s) /\ s[b] \in {"-", "+"}
    THEN strtoull_result(s[b] = "-", b + 1, ScanDigits(s, b + 1, 0, FALSE))
    ELSE strtoull_result(FALSE, b, ScanDigits(s, b, 0, FALSE))

strtoull(s) == strtoull_sign(s, SkipSpace(s, 1))

\* number_type(parse_func(...)): unsigned long long to int64_t.
to_integer(u) == IF u >= Pow2(IntBits - 1) THEN u - Pow2(IntBits) ELSE u

\* if (errno != 0 or *pos) handle_error(...); return i;
parse_number_result(self, opt, s, r) ==
    [self |-> IF r.erange \/ r.pos <= Len(s)
              THEN handle_error(self, "conversion", opt)
              ELSE self,
     value |-> to_integer(r.val)]

\* parse_number<integer>: the parsed value is returned also after an error.
parse_number(self, opt, s) ==
    IF s = <<>>
    THEN [self |-> handle_error(self, "conversion", opt), value |-> 0]
    ELSE parse_number_result(self, opt, s, strtoull(s))

\* A double is the decimal fraction mant / 10^scale, kept without trailing
\* zeros in the fraction, so that equal numbers are equal values.
RECURSIVE Double(_, _)
Double(mant, scale) ==
    IF scale > 0 /\ mant % 10 = 0 THEN Double(mant \div 10, scale - 1)
    ELSE [mant |-> mant, scale |-> scale]

RECURSIVE Pow10(_)
Pow10(n) == IF n = 0 THEN 1 ELSE 10 * Pow10(n - 1)

\* A digit run of strtod from index i on: acc is the number the n digits
\* denote, pos the index after them.
RECURSIVE ScanDecimal(_, _, _, _)
ScanDecimal(s, i, acc, n) ==
    IF i <= Len(s) /\ IsDigit(s[i])
    THEN ScanDecimal(s, i + 1, acc * 10 + DigitVal(s[i]), n + 1)
    ELSE [pos |-> i, acc |-> acc, n |-> n]

\* std::strtod(s, &pos) on decimal text (the texts of the model have no
\* exponent, and are far from the range of a double: errno stays 0).  ip is
\* the digit run before the point, fp the one after it; with no digit at
\* all nothing is converted and pos is the start of s.
strtod_result(neg, ip, fp) ==
    IF ip.n + fp.n = 0
    THEN [val |-> Double(0, 0), pos |-> 1, erange |-> FALSE]
    ELSE [val |-> Double((IF neg THEN 0 - 1 ELSE 1) * (ip.acc * Pow10(fp.n) + fp.acc),
                         fp.n),
          pos |-> fp.pos, erange |-> FALSE]

strtod_fraction(s, neg, ip) ==
    IF ip.pos <= Len(s) /\ s[ip.pos] = "."
    THEN strtod_result(neg, ip, ScanDecimal(s, ip.pos + 1, 0, 0))
    ELSE strtod_result(neg, ip, [pos |-> ip.pos, acc |-> 0, n |-> 0])

strtod_sign(s, b) ==
    IF b <= Len(s) /\ s[b] \in {"-", "+"}
    THEN strtod_fraction(s, s[b] = "-", ScanDecimal(s, b + 1, 0, 0))
    ELSE strtod_fraction(s, FALSE, ScanDecimal(s, b, 0, 0))

strtod(s) == strtod_sign(s, SkipSpace(s, 1))

\* Mutant: the check of the unparsed rest is left out.
parse_number_double_prefix(self, opt, s) ==
    IF s = <<>>
    THEN [self |-> handle_error(self, "conversion", opt), value |-> Double(0, 0)]
    ELSE [self |-> self, value |-> strtod(s).val]

\* parse_number<double>(s, std::strtod)
parse_number_double(self, opt, s) ==
    IF s = <<>>
    THEN [self |-> handle_error(self, "conversion", opt), value |-> Double(0, 0)]
    ELSE [self |-> IF strtod(s).erange \/ strtod(s).pos <= Len(s)
                   THEN handle_error(self, "conversion", opt)
                   ELSE self,
          value |-> strtod(s).val]

make_arg(self, O, opt, opt_val) ==
    IF O[opt].kind = "int"
    THEN parse_number(self, opt, opt_val)
    ELSE IF O[opt].kind = "double"
    THEN parse_number_double(self, opt, opt_val)
    ELSE [self |-> self, value |-> opt_val]

\* Mutant: every value is allowed.
is_valid_option_value_any(o, val) == TRUE

\* values_impl::is_valid_option_value
is_valid_option_value(o, val) ==
    IF o.is_values THEN \E k \in 1..Len(o.values) : o.values[k] = val ELSE TRUE

(***************************************************************************)
(* Reading a value with a default.                                         *)
(***************************************************************************)
\* static_cast<T>(default_) for the value type T of the option: an integer
\* is reduced to the IntBits bits of int64_t, a string is copied.
static_cast(o, default_) ==
    IF o.kind = "int" THEN to_integer(default_ % Pow2(IntBits)) ELSE default_

\* Mutant: the default is returned whether or not the option was found.
get_or_default(v, O, name, default_) ==
    static_cast(opt_by_name(O, name), default_)

\* optvals_type::get_or<s>(default_), for the options it compiles for: those
\* for which get_impl<s>() returns a pointer.
get_or(v, O, name, default_) ==
    IF v.opts_found[optindex(O, name)] THEN get_impl(v, O, name)[1]
    ELSE static_cast(opt_by_name(O, name), default_)

(***************************************************************************)
(* References.                                                             *)
(***************************************************************************)
\* Mutant: the referenced option's cell is copied whether or not it was found.
add_referenced_option_unchecked(self, O, name) ==
    IF is_flag(opt_by_name(O, name)) THEN TRUE
    ELSE IF opt_by_name(O, name).is_multiple THEN self.optvals[optindex(O, name)]
    ELSE <<self.optvals[optindex(O, name)]>>

\* The state of the referenced option at this moment of the scan.
add_referenced_option(self, O, name) ==
    LET r == optindex(O, name)
    IN IF found(self, O, name)
       THEN IF is_flag(O[r]) THEN TRUE
            ELSE IF O[r].is_multiple THEN self.optvals[r]
            ELSE <<self.optvals[r]>>
       ELSE DefaultRefStorage(O[r])

collect_references(self, O, o, value) ==
    <<value>> \o [k \in 1..Len(o.refs) |-> add_referenced_option(self, O, o.refs[k])]

(***************************************************************************)
(* Parsing and dispatch.  self is the parser object: optvals, opts_found,  *)
(* has_error, argc, argi, argv, error_handler, and the log.  tok is the    *)
(* argv index of the token the current loop iteration started at.          *)
(* The handle_* operators return the new parser object and the bool the    *)
(* function returns.                                                       *)
(***************************************************************************)
\* Mutant: the tuples of the ref<> options hold live references, so after
\* every store they show the current state of the options they refer to.
dispatch_store_live(self, O, opt, value) ==
    LET s == [self EXCEPT !.optvals[optindex(O, O[opt].name)] =
                store_option_value(O[opt].is_multiple, @,
                                   IF O[opt].is_ref
                                   THEN collect_references(self, O, O[opt], value)
                                   ELSE value)]
        relink(o, t) ==
            <<t[1]>> \o [k \in 1..Len(o.refs) |-> add_referenced_option(s, O, o.refs[k])]
    IN [s EXCEPT !.optvals =
          [j \in 1..Len(O) |->
             IF ~O[j].is_ref THEN s.optvals[j]
             ELSE IF O[j].is_multiple
             THEN [t \in 1..Len(s.optvals[j]) |-> relink(O[j], s.optvals[j][t])]
             ELSE relink(O[j], s.optvals[j])]]

\* The end of dispatch_option_with_arg: the value (for a ref<> option the
\* tuple with the referenced options) is stored in the option's cell.
dispatch_store(self, O, opt, value) ==
    [self EXCEPT !.optvals[optindex(O, O[opt].name)] =
        store_option_value(O[opt].is_multiple, @,
                           IF O[opt].is_ref
                           THEN collect_references(self, O, O[opt], value)
                           ELSE value)]

\* m is what make_arg returned: the values<> check, then the store.
dispatch_value(m, O, opt) ==
    dispatch_store(IF O[opt].is_values /\ ~is_valid_option_value(O[opt], m.value)
                   THEN handle_error(m.self, "invalid_value", opt)
                   ELSE m.self,
                   O, opt, m.value)

dispatch_option_with_arg(self, O, opt, opt_str, opt_val) ==
    IF is_callback(O[opt])
    THEN callback(set_found(self, O, O[opt].name), opt, opt_str, opt_val)
    ELSE dispatch_value(make_arg(set_found(self, O, O[opt].name), O, opt, opt_val),
                        O, opt)

\* Mutant: a missing argument is taken to be the empty string.
handle_opt_next_arg_empty(self, O, opt, opt_str) ==
    [self |-> dispatch_option_with_arg(
                  self, O, opt, opt_str,
                  IF self.argi = self.argc THEN <<>> ELSE self.argv[self.argi]),
     ret |-> TRUE]

\* Mutant: the next argument is read as the value but the cursor goes back
\* to the option, so that the loop handles the argument as a token as well.
handle_opt_next_arg_peek(self, O, opt, opt_str) ==
    IF self.argi = self.argc
    THEN [self |-> handle_error(self, "missing_argument", opt), ret |-> FALSE]
    ELSE [self |-> [dispatch_option_with_arg(self, O, opt, opt_str,
                                             self.argv[self.argi])
                      EXCEPT !.argi = @ - 1],
          ret |-> TRUE]

\* The second half of handle_opt_with_arg: the token is exactly the name, and
\* self.argi has been advanced to the next argument.
handle_opt_next_arg(self, O, opt, opt_str) ==
    IF self.argi = self.argc
    THEN [self |-> handle_error(self, "missing_argument", opt), ret |-> FALSE]
    ELSE [self |-> dispatch_option_with_arg(self, O, opt, opt_str,
                                            self.argv[self.argi]),
          ret |-> TRUE]

\* Mutant: the '=' is not skipped, it becomes part of the value.
handle_opt_with_arg_keep_equals(self, O, opt, opt_str) ==
    LET len == Len(O[opt].name)
    IN IF Len(opt_str) > len
       THEN IF opt_str[len + 1] = "=" \/ O[opt].is_short
            THEN LET opt_start_offs == len
                 IN [self |-> dispatch_option_with_arg(
                                  self, O, opt,
                                  substr_n(opt_str, opt_start_offs),
                                  substr(opt_str, opt_start_offs)),
                     ret |-> TRUE]
            ELSE [self |-> self, ret |-> FALSE]
       ELSE handle_opt_next_arg([self EXCEPT !.argi = @ + 1], O, opt, opt_str)

\* Mutant: whatever follows the name is taken as the value, as for a
\* short option.
handle_opt_with_arg_any_suffix(self, O, opt, opt_str) ==
    LET len == Len(O[opt].name)
    IN IF Len(opt_str) > len
       THEN IF TRUE
            THEN LET opt_start_offs == len + (IF opt_str[len + 1] = "=" THEN 1 ELSE 0)
                 IN [self |-> dispatch_option_with_arg(
                                  self, O, opt,
                                  substr_n(opt_str, opt_start_offs),
                                  substr(opt_str, opt_start_offs)),
                     ret |-> TRUE]
            ELSE [self |-> self, ret |-> FALSE]
       ELSE handle_opt_next_arg([self EXCEPT !.argi = @ + 1], O, opt, opt_str)

handle_opt_with_arg(self, O, opt, opt_str) ==
    LET len == Len(O[opt].name)
    IN IF Len(opt_str) > len
       THEN IF opt_str[len + 1] = "=" \/ O[opt].is_short
            THEN LET opt_start_offs == len + (IF opt_str[len + 1] = "=" THEN 1 ELSE 0)
                 IN [self |-> dispatch_option_with_arg(
                                  self, O, opt,
                                  substr_n(opt_str, opt_start_offs),
                                  substr(opt_str, opt_start_offs)),
                     ret |-> TRUE]
            ELSE [self |-> self, ret |-> FALSE]
       ELSE handle_opt_next_arg([self EXCEPT !.argi = @ + 1], O, opt, opt_str)

\* Mutant: no duplicate check.
handle_regular_impl_unchecked(self, O, opt, opt_str) ==
    IF ~starts_with(opt_str, O[opt].name) THEN [self |-> self, ret |-> FALSE]
    ELSE IF ~has_argument(O[opt])
    THEN IF opt_str # O[opt].name THEN [self |-> self, ret |-> FALSE]
         ELSE [self |-> IF is_callback(O[opt])
                        THEN callback(set_found(self, O, O[opt].name),
                                      opt, opt_str, <<>>)
                        ELSE set_found(self, O, O[opt].name),
               ret |-> TRUE]
    ELSE handle_opt_with_arg(self, O, opt, opt_str)

\* Mutant: the duplicate check does not look at overridable.
handle_regular_impl_strict(self, O, opt, opt_str) ==
    IF ~starts_with(opt_str, O[opt].name) THEN [self |-> self, ret |-> FALSE]
    ELSE IF /\ ~O[opt].is_multiple
            /\ ~is_callback(O[opt])
            /\ found(self, O, O[opt].name)
    THEN [self |-> handle_error(self, "duplicate", opt), ret |-> FALSE]
    ELSE IF ~has_argument(O[opt])
    THEN IF opt_str # O[opt].name THEN [self |-> self, ret |-> FALSE]
         ELSE [self |-> IF is_callback(O[opt])
                        THEN callback(set_found(self, O, O[opt].name),
                                      opt, opt_str, <<>>)
                        ELSE set_found(self, O, O[opt].name),
               ret |-> TRUE]
    ELSE handle_opt_with_arg(self, O, opt, opt_str)

\* Mutant: the duplicate check also applies to callbacks.
handle_regular_impl_callback_once(self, O, opt, opt_str) ==
    IF ~starts_with(opt_str, O[opt].name) THEN [self |-> self, ret |-> FALSE]
    ELSE IF /\ ~O[opt].is_multiple
            /\ ~O[opt].is_overridable
            /\ found(self, O, O[opt].name)
    THEN [self |-> handle_error(self, "duplicate", opt), ret |-> FALSE]
    ELSE IF ~has_argument(O[opt])
    THEN IF opt_str # O[opt].name THEN [self |-> self, ret |-> FALSE]
         ELSE [self |-> IF is_callback(O[opt])
                        THEN callback(set_found(self, O, O[opt].name),
                                      opt, opt_str, <<>>)
                        ELSE set_found(self, O, O[opt].name),
               ret |-> TRUE]
    ELSE handle_opt_with_arg(self, O, opt, opt_str)

\* Mutant: a flag or callback without argument matches on its name as a
\* prefix.
handle_regular_impl_flag_prefix(self, O, opt, opt_str) ==
    IF ~starts_with(opt_str, O[opt].name) THEN [self |-> self, ret |-> FALSE]
    ELSE IF /\ ~O[opt].is_multiple
            /\ ~is_callback(O[opt])
            /\ ~O[opt].is_overridable
            /\ found(self, O, O[opt].name)
    THEN [self |-> handle_error(self, "duplicate", opt), ret |-> FALSE]
    ELSE IF ~has_argument(O[opt])
    THEN IF FALSE THEN [self |-> self, ret |-> FALSE]
         ELSE [self |-> IF is_callback(O[opt])
                        THEN callback(set_found(self, O, O[opt].name),
                                      opt, opt_str, <<>>)
                        ELSE set_found(self, O, O[opt].name),
               ret |-> TRUE]
    ELSE handle_opt_with_arg(self, O, opt, opt_str)

handle_regular_impl(self, O, opt, opt_str) ==
    IF ~starts_with(opt_str, O[opt].name) THEN [self |-> self, ret |-> FALSE]
    ELSE IF /\ ~O[opt].is_multiple
            /\ ~is_callback(O[opt])
            /\ ~O[opt].is_overridable
            /\ found(self, O, O[opt].name)
    THEN [self |-> handle_error(self, "duplicate", opt), ret |-> FALSE]
    ELSE IF ~has_argument(O[opt])
    THEN IF opt_str # O[opt].name THEN [self |-> self, ret |-> FALSE]
         ELSE [self |-> IF is_callback(O[opt])
                        THEN callback(set_found(self, O, O[opt].name),
                                      opt, opt_str, <<>>)
                        ELSE set_found(self, O, O[opt].name),
               ret |-> TRUE]
    ELSE handle_opt_with_arg(self, O, opt, opt_str)

\* Mutant: a positional that was already found accepts the token again.
handle_positional_impl_refill(self, O, opt, opt_str) ==
    [self |-> dispatch_option_with_arg(self, O, opt, O[opt].name, opt_str),
     ret |-> TRUE]

\* Mutant: a multiple<> positional, too, accepts a token only once.
handle_positional_impl_once(self, O, opt, opt_str) ==
    IF found(self, O, O[opt].name)
    THEN [self |-> self, ret |-> FALSE]
    ELSE [self |-> dispatch_option_with_arg(self, O, opt, O[opt].name, opt_str),
          ret |-> TRUE]

handle_positional_impl(self, O, opt, opt_str) ==
    IF ~O[opt].is_multiple /\ found(self, O, O[opt].name)
    THEN [self |-> self, ret |-> FALSE]
    ELSE [self |-> dispatch_option_with_arg(self, O, opt, O[opt].name, opt_str),
          ret |-> TRUE]

\* (handle<opts>(opt_str) or ...): declaration order, stops at the first true.
\* r is what the handler of option opt returned.
RECURSIVE handle_regular_from(_, _, _, _)
RECURSIVE handle_regular_or(_, _, _, _)
handle_regular_or(r, O, opt, opt_str) ==
    IF r.ret THEN r ELSE handle_regular_from(r.self, O, opt + 1, opt_str)

handle_regular_from(self, O, opt, opt_str) ==
    IF opt > Len(O) THEN [self |-> self, ret |-> FALSE]
    ELSE handle_regular_or(IF O[opt].is_positional
                           THEN [self |-> self, ret |-> FALSE]
                           ELSE handle_regular_impl(self, O, opt, opt_str),
                           O, opt, opt_str)

\* Mutant: the named options have to come in declaration order; an option
\* declared before one that is already found is not tried.
handle_regular_in_order(self, O, opt_str) ==
    handle_regular_from(
        self, O,
        IF \E j \in 1..Len(O) : self.opts_found[j]
        THEN 1 + CHOOSE j \in 1..Len(O) :
                   /\ self.opts_found[j]
                   /\ \A i \in (j + 1)..Len(O) : ~self.opts_found[i]
        ELSE 1,
        opt_str)

handle_regular(self, O, opt_str) == handle_regular_from(self, O, 1, opt_str)

RECURSIVE handle_positional_from(_, _, _, _)
RECURSIVE handle_positional_or(_, _, _, _)
handle_positional_or(r, O, opt, opt_str) ==
    IF r.ret THEN r ELSE handle_positional_from(r.self, O, opt + 1, opt_str)

handle_positional_from(self, O, opt, opt_str) ==
    IF opt > Len(O) THEN [self |-> self, ret |-> FALSE]
    ELSE handle_positional_or(IF O[opt].is_positional
                              THEN handle_positional_impl(self, O, opt, opt_str)
                              ELSE [self |-> self, ret |-> FALSE],
                              O, opt, opt_str)

handle_positional(self, O, opt_str) == handle_positional_from(self, O, 1, opt_str)

\* (stop_parsing<special>(opt_str) or ...)
stop_parsing(S, opt_str) == \E k \in 1..Len(S) : opt_str = S[k]

\* if (not handle_regular(opt_str) and not handle_positional(opt_str)):
\* p is what handle_positional returned.
parse_unrecognized(p) ==
    IF p.ret THEN p.self ELSE handle_error(p.self, "unrecognized", 0)

\* Mutant: the token is offered to the positionals also after a named
\* option has taken it.
parse_positional_both(r, O, opt_str) ==
    IF r.ret THEN handle_positional(r.self, O, opt_str).self
    ELSE parse_unrecognized(handle_positional(r.self, O, opt_str))

\* r is what handle_regular returned.
parse_positional(r, O, opt_str) ==
    IF r.ret THEN r.self
    ELSE parse_unrecognized(handle_positional(r.self, O, opt_str))

\* The body of the main parser loop below the stop_parsing test, up to the
\* test of has_error: the parser object after the token at self.argi.
parse_token(self, O) ==
    parse_positional(
        handle_regular([self EXCEPT !.tok = self.argi], O, self.argv[self.argi]),
        O, self.argv[self.argi])

\* Mutant: the check stops at the first error the handler aborts on.
RECURSIVE check_required_while(_, _, _)
check_required_while(self, O, opt) ==
    IF opt > Len(O) \/ self.has_error THEN self
    ELSE check_required_while(
             IF ~found(self, O, O[opt].name) /\ O[opt].is_required
             THEN handle_error(self, "required", opt)
             ELSE self,
             O, opt + 1)

\* Foreach<opts...>: one error per required option that was not found.
RECURSIVE check_required_from(_, _, _)
check_required_from(self, O, opt) ==
    IF opt > Len(O) THEN self
    ELSE check_required_from(
             IF ~found(self, O, O[opt].name) /\ O[opt].is_required
             THEN handle_error(self, "required", opt)
             ELSE self,
             O, opt + 1)

check_required(self, O) == check_required_from([self EXCEPT !.tok = 0], O, 1)

\* Mutant: the span starts at the stop literal itself.
unprocessed_span_at_stop(self) ==
    [start |-> self.argi - 1, size |-> (self.argc - self.argi + 1) % Pow2(SizeBits)]

\* std::span{argv + argi, static_cast<std::size_t>(argc - argi)}
unprocessed_span(self) ==
    [start |-> self.argi, size |-> (self.argc - self.argi) % Pow2(SizeBits)]

\* The main parser loop as a function of the parser object: from the token
\* at self.argi to the end of the loop (argi = argc, a stop_parsing<>
\* literal, or has_error), with the verdicts of self.error_handler.
RECURSIVE parse_loop(_, _, _)
\* s is the parser object after one token: if (has_error) return; argi++.
parse_next(s, O, S) ==
    IF s.has_error THEN s ELSE parse_loop([s EXCEPT !.argi = @ + 1], O, S)

parse_loop(self, O, S) ==
    IF ~(self.argi < self.argc) THEN self
    ELSE IF stop_parsing(S, self.argv[self.argi]) THEN [self EXCEPT !.argi = @ + 1]
    ELSE parse_next(parse_token(self, O), O, S)

\* s is the parser object after the loop: parse returns at once if has_error
\* is set, otherwise after the required check.
parse_required(s, O) == IF s.has_error THEN s ELSE check_required(s, O)

\* clopts_impl::parse(argc, argv, error_handler) as a function: the parser
\* object a call with the arguments a (argv[1..argc-1]) ends with, when the
\* handler gives the verdicts error_handler to the successive errors.
parse(a, error_handler, O, S) ==
    parse_required(
        parse_loop([optvals |-> storage_type(O),
                    opts_found |-> [i \in 1..Len(O) |-> FALSE],
                    has_error |-> FALSE,
                    argc |-> Len(a) + 1, argi |-> 1, argv |-> a,
                    error_handler |-> error_handler, nv |-> 0, tok |-> 0,
                    log |-> <<>>],
                   O, S),
        O)

(***************************************************************************)
(* The parse session.                                                      *)
(***************************************************************************)
Verdicts(n) == [1..n -> BOOLEAN]

\* The parser object of the current state, with the handler's next verdicts.
Self(vs) ==
    [optvals |-> optvals, opts_found |-> opts_found, has_error |-> has_error,
     argc |-> argc, argi |-> argi, argv |-> argv,
     error_handler |-> vs, nv |-> 0, tok |-> 0, log |-> log]

\* Verdicts the handler was not asked for are fixed, so that one behaviour
\* of the handler is one choice of vs.
Asked(self, vs) == \A k \in (self.nv + 1)..Len(vs) : vs[k]

Init ==
    /\ cfg \in 1..Len(Configs)
    /\ argc = 0
    /\ argv = <<>>
    /\ argi = 0
    /\ opts_found = [i \in 1..NumOpts |-> FALSE]
    /\ optvals = storage_type(Opts)
    /\ has_error = FALSE
    /\ unprocessed_args = [start |-> 0, size |-> 0]
    /\ pc = "idle"
    /\ log = <<>>
    /\ declared = Declaration(Configs[cfg])
    /\ failed = clopts(declared)
    /\ failed = {}
    /\ prev = <<>>
    /\ help_text = <<>>

\* clopts_impl::parse(argc, argv, error_handler): initialise the parser
\* object and enter the main loop.  argv[0] is the program name; argv here
\* holds argv[1..argc-1].  parse(0, nullptr) is argc = 0 with no tokens.
ParseCall ==
    /\ pc = "idle"
    /\ \E a \in SeqsUpTo(Configs[cfg].tokens, MaxArgs) :
         /\ argv' = a
         /\ argc' \in (IF a = <<>> THEN {0, 1} ELSE {Len(a) + 1})
    /\ argi' = 1
    /\ opts_found' = [i \in 1..NumOpts |-> FALSE]
    /\ optvals' = storage_type(Opts)
    /\ has_error' = FALSE
    /\ pc' = "scan"
    /\ UNCHANGED <<cfg, unprocessed_args, log, declared, failed, prev, help_text>>

\* A loop iteration whose token is a stop_parsing<> literal: argi++; break.
ScanStop ==
    /\ pc = "scan"
    /\ argi < argc
    /\ stop_parsing(Special, argv[argi])
    /\ argi' = argi + 1
    /\ pc' = "stopped"
    /\ log' = Append(log, Event("stop", "", 0, argi, TRUE, argv[argi], <<>>))
    /\ UNCHANGED <<cfg, argc, argv, opts_found, optvals, has_error,
                   unprocessed_args, declared, failed, prev, help_text>>

\* Mutant: the loop has no increment.
ScanTokenEnd_stay(s, vs) ==
    /\ Asked(s, vs)
    /\ opts_found' = s.opts_found
    /\ optvals' = s.optvals
    /\ has_error' = s.has_error
    /\ log' = s.log
    /\ argi' = s.argi
    /\ pc' = IF s.has_error THEN "failed" ELSE "scan"

\* s is the parser object after the token was handled:
\* if (has_error) return; otherwise argi++.
ScanTokenEnd(s, vs) ==
    /\ Asked(s, vs)
    /\ opts_found' = s.opts_found
    /\ optvals' = s.optvals
    /\ has_error' = s.has_error
    /\ log' = s.log
    /\ argi' = IF s.has_error THEN s.argi ELSE s.argi + 1
    /\ pc' = IF s.has_error THEN "failed" ELSE "scan"

\* Any other loop iteration: handle the token, return if has_error is set,
\* otherwise go on with the next token.
ScanToken ==
    /\ pc = "scan"
    /\ argi < argc
    /\ ~stop_parsing(Special, argv[argi])
    /\ \E vs \in Verdicts(MaxErrorsPerToken) :
         ScanTokenEnd(parse_token(Self(vs), Opts), vs)
    /\ UNCHANGED <<cfg, argc, argv, unprocessed_args, declared, failed, prev, help_text>>

\* s is the parser object after the required check: the unprocessed span
\* is saved and parse returns.
FinishEnd(s, vs) ==
    /\ Asked(s, vs)
    /\ has_error' = s.has_error
    /\ log' = s.log
    /\ unprocessed_args' = IF has_stop_parsing
                           THEN unprocessed_span(s)
                           ELSE unprocessed_args

\* After the loop: the required check, then the unprocessed span is saved
\* and parse returns.
Finish ==
    /\ \/ pc = "stopped"
       \/ pc = "scan" /\ ~(argi < argc)
    /\ \E vs \in Verdicts(NumOpts) :
         FinishEnd(check_required(Self(vs), Opts), vs)
    /\ pc' = "done"
    /\ UNCHANGED <<cfg, argc, argv, argi, opts_found, optvals, declared, failed,
                   prev, help_text>>

Next == ParseCall \/ ScanStop \/ ScanToken \/ Finish

Spec == Init /\ [][Next]_vars

\* parse has been called and has not returned: it is in the loop or between
\* the loop and the return.
InParse == pc = "scan" \/ pc = "stopped"

\* The control state of parse: where it is in its code and where its cursor
\* is.  Every iteration of the loop changes it (argi++, break or return), and
\* so does the code after the loop (return).
control == <<pc, argi>>

\* parse executes: its control state moves on.
Running ==
    /\ InParse
    /\ pc' \in {"scan", "stopped", "failed", "done"}
    /\ argi' \in 0..(MaxArgs + 2)

\* parse is straight-line, single-threaded code: while a call is in progress
\* the next iteration of the loop, or the code after the loop, is executed,
\* provided the error handler and the callbacks return.  In a state with
\* InParse one of ScanStop, ScanToken and Finish is enabled, and these are
\* the steps of Next that change the control state there, so the condition
\* is weak fairness of ScanStop \/ ScanToken \/ Finish.
SpecLive == Init /\ [][Next]_vars /\ WF_control(Running)

(***************************************************************************)
(* Repeated calls of parse on one option set.  Every call constructs a new *)
(* parser object (clopts_impl self); prev keeps the call and the result of *)
(* the call before, for comparison.                                        *)
(***************************************************************************)
\* Largest number of tokens of a call when calls are repeated.
MaxArgsRepeat == 1

IsError(e) == e.ev = "error"

\* The verdicts the handler has given in this call, in order.
VerdictsGiven ==
    [k \in 1..Len(SelectSeq(log, IsError)) |-> SelectSeq(log, IsError)[k].verdict]

\* The call that has returned and what it returned.
Outcome ==
    [argc |-> argc, argv |-> argv, verdicts |-> VerdictsGiven,
     opts_found |-> opts_found, optvals |-> optvals,
     unprocessed_args |-> unprocessed_args, has_error |-> has_error, pc |-> pc]

\* Mutant: the parser object of the call before is used again.
ParseAgain_reuse ==
    /\ pc \in {"idle", "done", "failed"}
    /\ \E a \in SeqsUpTo(Configs[cfg].tokens, MaxArgsRepeat) :
         /\ argv' = a
         /\ argc' \in (IF a = <<>> THEN {0, 1} ELSE {Len(a) + 1})
    /\ argi' = 1
    /\ log' = <<>>
    /\ prev' = IF pc = "idle" THEN <<>> ELSE <<Outcome>>
    /\ pc' = "scan"
    /\ UNCHANGED <<cfg, declared, failed, opts_found, optvals, has_error,
                   unprocessed_args, help_text>>

\* clopts_impl::parse(argc, argv, error_handler), called for the first time
\* or after an earlier call has returned.
ParseAgain ==
    /\ pc \in {"idle", "done", "failed"}
    /\ \E a \in SeqsUpTo(Configs[cfg].tokens, MaxArgsRepeat) :
         /\ argv' = a
         /\ argc' \in (IF a = <<>> THEN {0, 1} ELSE {Len(a) + 1})
    /\ argi' = 1
    /\ opts_found' = [i \in 1..NumOpts |-> FALSE]
    /\ optvals' = storage_type(Opts)
    /\ has_error' = FALSE
    /\ unprocessed_args' = [start |-> 0, size |-> 0]
    /\ log' = <<>>
    /\ prev' = IF pc = "idle" THEN <<>> ELSE <<Outcome>>
    /\ pc' = "scan"
    /\ UNCHANGED <<cfg, declared, failed, help_text>>

NextSessions == ParseAgain \/ ScanStop \/ ScanToken \/ Finish

SpecSessions == Init /\ [][NextSessions]_vars

(***************************************************************************)
(* The help message, built when clopts<...> is instantiated.  A text is a  *)
(* sequence of characters; "\n" ends a line.                               *)
(***************************************************************************)
\* The characters of the model's option names, in the order of their codes.
Ascii == <<"-", "0", "1", "2", "3", "4", "5", "6", "7", "8", "9",
           "a", "b", "c", "d", "e", "f", "g", "h", "i", "j", "k", "l", "m",
           "n", "o", "p", "q", "r", "s", "t", "u", "v", "w", "x", "y", "z">>

CharCode(c) == CHOOSE k \in 1..Len(Ascii) : Ascii[k] = c

\* std::string_view operator<: the first differing character decides, a
\* proper prefix is smaller.
RECURSIVE string_view_less(_, _)
string_view_less(a, b) ==
    IF b = <<>> THEN FALSE
    ELSE IF a = <<>> THEN TRUE
    ELSE IF a[1] = b[1] THEN string_view_less(Tail(a), Tail(b))
    ELSE CharCode(a[1]) < CharCode(b[1])

is_positional(o) == o.is_positional

is_not_positional(o) == ~is_positional(o)

is_values_option(o) == o.is_values

\* filter<is_positional, opts...> and its two siblings.
filter_is_positional(O) == SelectSeq(O, is_positional)

filter_is_not_positional(O) == SelectSeq(O, is_not_positional)

filter_is_values_option(O) == SelectSeq(O, is_values_option)

\* o put into the sorted list S before the first option with a larger name.
RECURSIVE sort_insert(_, _)
sort_insert(S, o) ==
    IF S = <<>> THEN <<o>>
    ELSE IF string_view_less(o.name, Head(S).name) THEN <<o>> \o S
    ELSE <<Head(S)>> \o sort_insert(Tail(S), o)

\* Mutant: the list is left in declaration order.
sort_declared(O) == O

\* sort<get_option_name, list>: std::sort of the indices by option name.
\* (The names of an instantiated option set are pairwise different, so the
\* result does not depend on the algorithm.)
RECURSIVE sort(_)
sort(O) ==
    IF O = <<>> THEN <<>>
    ELSE sort_insert(sort(SubSeq(O, 1, Len(O) - 1)), O[Len(O)])

\* The digits of a positive integer.
RECURSIVE to_string_digits(_)
to_string_digits(i) ==
    IF i = 0 THEN <<>>
    ELSE Append(to_string_digits(i \div 10), Digit[(i % 10) + 1])

constexpr_to_string(i) ==
    IF i = 0 THEN <<"0">>
    ELSE IF i < 0 THEN <<"-">> \o to_string_digits(0 - i)
    ELSE to_string_digits(i)

\* Only multiple<> declares the member 'type' the concept asks for.
should_print_argument_type(o) == o.is_multiple /\ ~o.is_help_option

\* type_name<canonical_type>() of an option whose type is printed: the name
\* of the element type and "s".
type_name(o) ==
    (CASE o.kind = "string" -> <<"s", "t", "r", "i", "n", "g">>
       [] o.kind = "int" -> <<"n", "u", "m", "b", "e", "r">>
       [] o.kind = "double" -> <<"n", "u", "m", "b", "e", "r">>
       [] OTHER -> <<"a", "r", "g">>) \o <<"s">>

Spaces(n) == [i \in 1..n |-> " "]

Max(a, b) == IF a >= b THEN a ELSE b

\* The first line: the positional options as declared, those that are not
\* required in brackets, then [options].
RECURSIVE usage_line(_)
usage_line(P) ==
    IF P = <<>> THEN <<"[", "o", "p", "t", "i", "o", "n", "s", "]", "\n">>
    ELSE (IF ~Head(P).is_required THEN <<"[">> ELSE <<>>)
         \o <<"<">> \o Head(P).name \o <<">">>
         \o (IF ~Head(P).is_required THEN <<"]">> ELSE <<>>)
         \o <<" ">> \o usage_line(Tail(P))

\* Length of an option's name as printed, with its type if that is printed.
printed_len(o) ==
    IF should_print_argument_type(o)
    THEN Len(o.name) + Len(type_name(o)) + (IF is_positional(o) THEN 5 ELSE 3)
    ELSE IF is_positional(o) THEN Len(o.name) + 2 ELSE Len(o.name)

RECURSIVE max_len(_)
max_len(O) ==
    IF O = <<>> THEN 0 ELSE Max(printed_len(Head(O)), max_len(Tail(O)))

RECURSIVE max_vals_opt_name_len(_)
max_vals_opt_name_len(O) ==
    IF O = <<>> THEN 0
    ELSE Max(IF Head(O).is_values THEN Len(Head(O).name) ELSE 0,
             max_vals_opt_name_len(Tail(O)))

\* The name of an option as its row shows it.
printed_name(o) ==
    (IF is_positional(o) THEN <<"<">> \o o.name \o <<">">> ELSE o.name)
    \o (IF should_print_argument_type(o) THEN <<" ", ":", " ">> \o type_name(o)
        ELSE <<>>)

\* The lambda append: one row of the Arguments or of the Options block.
append(o, width) ==
    Spaces(4) \o printed_name(o) \o Spaces(width - Len(printed_name(o)))
    \o Spaces(2) \o o.description \o <<"\n">>

RECURSIVE each_append(_, _)
each_append(L, width) ==
    IF L = <<>> THEN <<>> ELSE append(Head(L), width) \o each_append(Tail(L), width)

\* values_impl::print_values: the values, separated by ", "; is_integer
\* tells whether they are integers or strings.
RECURSIVE print_values(_, _)
print_values(data, is_integer) ==
    IF data = <<>> THEN <<>>
    ELSE (IF Len(data) > 1
          THEN print_values(SubSeq(data, 1, Len(data) - 1), is_integer) \o <<",", " ">>
          ELSE <<>>)
         \o (IF is_integer THEN constexpr_to_string(data[Len(data)])
             ELSE data[Len(data)])

\* One row of the block of supported values.
values_row(o, width) ==
    Spaces(4) \o o.name \o <<":">> \o Spaces(width - Len(o.name) + 1)
    \o print_values(o.values, o.kind = "int") \o <<"\n">>

RECURSIVE each_values_row(_, _)
each_values_row(L, width) ==
    IF L = <<>> THEN <<>>
    ELSE values_row(Head(L), width) \o each_values_row(Tail(L), width)

\* Mutant: the first line lists the positional options sorted by name.
make_help_message_sorted_usage(O) ==
    usage_line(sort(filter_is_positional(O)))
    \o (IF filter_is_positional(O) # <<>>
        THEN <<"\n", "A", "r", "g", "u", "m", "e", "n", "t", "s", ":", "\n">>
             \o each_append(sort(filter_is_positional(O)), max_len(O)) \o <<"\n">>
        ELSE <<>>)
    \o <<"O", "p", "t", "i", "o", "n", "s", ":", "\n">>
    \o each_append(sort(filter_is_not_positional(O)), max_len(O))
    \o (IF filter_is_values_option(O) # <<>>
        THEN <<"\n", "S", "u", "p", "p", "o", "r", "t", "e", "d", " ", "o", "p", "t", "i", "o", "n", " ", "v", "a", "l", "u", "e", "s", ":", "\n">>
             \o each_values_row(sort(filter_is_values_option(O)),
                                max_vals_opt_name_len(O))
        ELSE <<>>)

\* make_help_message() for the regular options O.
make_help_message(O) ==
    usage_line(filter_is_positional(O))
    \o (IF filter_is_positional(O) # <<>>
        THEN <<"\n", "A", "r", "g", "u", "m", "e", "n", "t", "s", ":", "\n">>
             \o each_append(sort(filter_is_positional(O)), max_len(O)) \o <<"\n">>
        ELSE <<>>)
    \o <<"O", "p", "t", "i", "o", "n", "s", ":", "\n">>
    \o each_append(sort(filter_is_not_positional(O)), max_len(O))
    \o (IF filter_is_values_option(O) # <<>>
        THEN <<"\n", "S", "u", "p", "p", "o", "r", "t", "e", "d", " ", "o", "p", "t", "i", "o", "n", " ", "v", "a", "l", "u", "e", "s", ":", "\n">>
             \o each_values_row(sort(filter_is_values_option(O)),
                                max_vals_opt_name_len(O))
        ELSE <<>>)

(***************************************************************************)
(* Instantiation of clopts<...> for arbitrary template arguments: the      *)
(* validation is applied to every list of at most MaxDeclared descriptors  *)
(* drawn from DescriptorPool.                                              *)
(***************************************************************************)
MaxDeclared == 3

DescriptorPool ==
    { option(<<"-", "a">>, "string", FALSE, FALSE),
      flag(<<"-", "a">>),
      option(<<"-", "b">>, "string", FALSE, FALSE),
      option(<<"-", "-">>, "string", FALSE, FALSE),
      stop_parsing_option(<<"-", "-">>),
      ref(option(<<"-", "r">>, "string", FALSE, FALSE), << <<"-", "a">> >>),
      ref(option(<<"-", "a">>, "string", FALSE, FALSE), << <<"-", "a">> >>),
      ref(option(<<"-", "b">>, "string", FALSE, FALSE), << <<"-", "r">> >>),
      ref(option(<<"-", "r">>, "string", FALSE, FALSE), << <<"-", "b">> >>) }

InitValidation ==
    /\ declared \in SeqsUpTo(DescriptorPool, MaxDeclared)
    /\ failed = {}
    /\ pc = "declared"
    /\ cfg = 0
    /\ argc = 0
    /\ argv = <<>>
    /\ argi = 0
    /\ opts_found = <<>>
    /\ optvals = <<>>
    /\ has_error = FALSE
    /\ unprocessed_args = [start |-> 0, size |-> 0]
    /\ log = <<>>
    /\ prev = <<>>
    /\ help_text = <<>>

\* The first use of clopts<declared...>::parse instantiates clopts_impl and
\* evaluates its static assertions.
Instantiate ==
    /\ pc = "declared"
    /\ failed' = clopts(declared)
    /\ pc' = "instantiated"
    /\ UNCHANGED <<cfg, argc, argv, argi, opts_found, optvals, has_error,
                   unprocessed_args, log, declared, prev, help_text>>

SpecValidation == InitValidation /\ [][Instantiate]_vars

(***************************************************************************)
(* help() on the option sets that lists of at most MaxHelpOpts descriptors *)
(* of HelpPool, in every order, instantiate.                               *)
(***************************************************************************)
MaxHelpOpts == 3

HelpPool ==
    { described(positional(<<"b">>, "string", TRUE), <<"d">>),
      described(values(positional(<<"a", "b">>, "int", FALSE), <<1, 2>>), <<"d">>),
      described(multiple(positional(<<"a">>, "string", FALSE)), <<"d">>),
      described(values(option(<<"-", "b">>, "string", FALSE, FALSE),
                       << <<"x">>, <<"y">> >>), <<"d">>),
      described(values(option(<<"-", "a">>, "int", FALSE, FALSE), <<2, 0 - 3>>), <<"d">>),
      described(flag(<<"-", "a", "b">>), <<"d">>),
      help_option }

InitHelp ==
    /\ declared \in SeqsUpTo(HelpPool, MaxHelpOpts)
    /\ failed = clopts(declared)
    /\ pc = "instantiated"
    /\ cfg = 0
    /\ argc = 0
    /\ argv = <<>>
    /\ argi = 0
    /\ opts_found = <<>>
    /\ optvals = <<>>
    /\ has_error = FALSE
    /\ unprocessed_args = [start |-> 0, size |-> 0]
    /\ log = <<>>
    /\ prev = <<>>
    /\ help_text = <<>>

\* help(): the message made for the regular options of an option set that
\* compiles.
help ==
    /\ pc = "instantiated"
    /\ failed = {}
    /\ help_text' = make_help_message(filter_regular_option(declared))
    /\ pc' = "help"
    /\ UNCHANGED <<cfg, argc, argv, argi, opts_found, optvals, has_error,
                   unprocessed_args, log, declared, failed, prev>>

SpecHelp == InitHelp /\ [][help]_vars

\* optvals_type::unprocessed(): the entries of the saved span.
unprocessed ==
    IF has_stop_parsing
    THEN [k \in 1..unprocessed_args.size |-> argv[unprocessed_args.start + k - 1]]
    ELSE <<>>

TypeOK ==
    /\ pc \in {"idle", "scan", "stopped", "failed", "done"}
    /\ has_error \in BOOLEAN
    /\ argi \in 0..(MaxArgs + 2)

(***************************************************************************)
(* Reading an argv by the documented command-line surface (README: option  *)
(* forms `name value` and `name=value`, positionals by position, the       *)
(* stop_parsing<> literal), independently of the parser's state.           *)
(***************************************************************************)
Errors == { k \in 1..Len(log) : log[k].ev = "error" }

NoErrors == Errors = {}

Returned == pc \in {"done", "failed"}

Named(O) == { o \in 1..Len(O) : ~O[o].is_positional }

\* The intended value of raw text for option o.
convert(o, raw) ==
    IF o.kind = "int" THEN to_integer(strtoull(raw).val)
    ELSE IF o.kind = "double" THEN strtod(raw).val
    ELSE raw

\* The occurrences in argv a from index i on, left to right, up to the
\* first stop literal: at is the token's index, opt the named option the
\* token is an occurrence of (0: the token is a positional token), raw the
\* text of its value.
RECURSIVE Occurrences(_, _, _, _)
Occurrences(O, S, a, i) ==
    IF i > Len(a) THEN <<>>
    ELSE IF stop_parsing(S, a[i]) THEN <<>>
    ELSE LET tok == a[i]
             exact == { o \in Named(O) : tok = O[o].name }
             inline == { o \in Named(O) :
                           /\ has_argument(O[o])
                           /\ Len(tok) > Len(O[o].name)
                           /\ starts_with(tok, O[o].name)
                           /\ (tok[Len(O[o].name) + 1] = "=" \/ O[o].is_short) }
         IN IF exact # {}
            THEN LET o == CHOOSE x \in exact : TRUE
                 IN IF ~has_argument(O[o])
                    THEN <<[at |-> i, opt |-> o, raw |-> <<>>]>>
                         \o Occurrences(O, S, a, i + 1)
                    ELSE IF i + 1 > Len(a) THEN <<>>
                    ELSE <<[at |-> i, opt |-> o, raw |-> a[i + 1]]>>
                         \o Occurrences(O, S, a, i + 2)
            ELSE IF inline # {}
            THEN LET o == CHOOSE x \in inline : TRUE
                     n == Len(O[o].name)
                 IN <<[at |-> i, opt |-> o,
                       raw |-> substr(tok, IF tok[n + 1] = "=" THEN n + 1 ELSE n)]>>
                    \o Occurrences(O, S, a, i + 1)
            ELSE <<[at |-> i, opt |-> 0, raw |-> tok]>>
                 \o Occurrences(O, S, a, i + 1)

\* The occurrences of option o (0: the positional tokens) in the argv of
\* the session.
OccurrencesOf(o) ==
    LET ofOpt(e) == e.opt = o
    IN SelectSeq(Occurrences(Opts, Special, argv, 1), ofOpt)

\* The positional descriptors in declaration order.
PositionalOpts ==
    LET isPos(i) == Opts[i].is_positional
    IN SelectSeq([i \in 1..NumOpts |-> i], isPos)

\* The own value of a stored element: the first component of a ref<> tuple.
OwnValue(o, element) == IF o.is_ref THEN element[1] ELSE element

(***************************************************************************)
(* C1: in a parse that raised no error, over an option set whose           *)
(* positionals are all single-valued, the k-th token that is no occurrence *)
(* of a named option (and no option value) is stored, converted, in the    *)
(* k-th positional descriptor in declaration order; the positionals after  *)
(* those stay not found.                                                   *)
(***************************************************************************)
C1_PositionalFillOrder ==
    (/\ pc = "done"
     /\ NoErrors
     /\ \A i \in 1..NumOpts : Opts[i].is_positional => ~Opts[i].is_multiple)
    => LET toks == OccurrencesOf(0)
           pos == PositionalOpts
       IN /\ Len(toks) <= Len(pos)
          /\ \A k \in 1..Len(pos) :
               IF k <= Len(toks)
               THEN /\ opts_found[pos[k]]
                    /\ optvals[pos[k]] = convert(Opts[pos[k]], toks[k].raw)
               ELSE ~opts_found[pos[k]]

\* Two positional tokens with a named option and its value between them.
C1_Witness ==
    /\ pc = "done"
    /\ NoErrors
    /\ Len(PositionalOpts) = 2
    /\ LET toks == OccurrencesOf(0)
       IN /\ Len(toks) = 2
          /\ toks[2].at = toks[1].at + 3
          /\ optvals[PositionalOpts[1]] = <<"h">>
          /\ optvals[PositionalOpts[2]] = 4

(***************************************************************************)
(* C2: in a parse that raised no error, the list stored for a named        *)
(* Multiple option is the sequence of the converted values of its          *)
(* occurrences in argv, in encounter order, duplicates kept.               *)
(***************************************************************************)
C2_MultipleEncounterOrder ==
    (pc = "done" /\ NoErrors)
    => \A o \in Named(Opts) :
         Opts[o].is_multiple =>
           LET occ == OccurrencesOf(o)
           IN /\ Len(optvals[o]) = Len(occ)
              /\ \A k \in 1..Len(occ) :
                   OwnValue(Opts[o], optvals[o][k]) = convert(Opts[o], occ[k].raw)

\* A list that is neither sorted nor free of duplicates: [2, 1, 1].
C2_Witness ==
    /\ pc = "done"
    /\ NoErrors
    /\ \E o \in Named(Opts) :
         /\ Opts[o].is_multiple
         /\ Opts[o].kind = "int"
         /\ optvals[o] = <<2, 1, 1>>

(***************************************************************************)
(* C3: each time a ref<> option is matched, the tuple it stores holds its  *)
(* own converted value and, for every referenced option, that option's     *)
(* state before the token: absent (nullopt / false / empty list) if its    *)
(* found bit is unset, otherwise its current value.                        *)
(***************************************************************************)
\* The text of the value the token at argi gives to option o.
RawValueAtCursor(o) ==
    IF o.is_positional THEN argv[argi]
    ELSE IF argv[argi] = o.name THEN argv[argi + 1]
    ELSE substr(argv[argi], Len(o.name) + 1)

\* The state of the option called name, as a ref<> tuple holds it.
StateOfReferenced(name) ==
    LET r == optindex(Opts, name)
    IN IF ~opts_found[r] THEN (IF is_flag(Opts[r]) THEN FALSE ELSE <<>>)
       ELSE IF is_flag(Opts[r]) THEN TRUE
       ELSE IF Opts[r].is_multiple THEN optvals[r]
       ELSE <<optvals[r]>>

C3_ReferenceSnapshot ==
    [][pc = "scan" =>
         \A o \in 1..NumOpts :
           (Opts[o].is_ref /\ optvals'[o] # optvals[o]) =>
             LET t == IF Opts[o].is_multiple
                      THEN optvals'[o][Len(optvals'[o])]
                      ELSE optvals'[o]
             IN /\ Len(t) = 1 + Len(Opts[o].refs)
                /\ t[1] = convert(Opts[o], RawValueAtCursor(Opts[o]))
                /\ \A k \in 1..Len(Opts[o].refs) :
                     t[k + 1] = StateOfReferenced(Opts[o].refs[k])]_vars

\* -y=a -x=1 -y v: the first tuple holds the absence of -x, the second "1".
C3_Witness ==
    \E o \in 1..NumOpts :
      /\ Opts[o].is_ref
      /\ Opts[o].is_multiple
      /\ Len(optvals[o]) = 2
      /\ optvals[o][1][2] = <<>>
      /\ optvals[o][2][2] = << <<"1">> >>

(***************************************************************************)
(* C4: an iteration whose token is a stop_parsing<> literal ends the scan  *)
(* without touching found bits, cells or the log of errors and callbacks,  *)
(* and the parse then returns with the unprocessed tail equal to the argv  *)
(* entries after that token, in order; only missing-required errors are    *)
(* raised after it.                                                        *)
(***************************************************************************)
C4_StopSentinel ==
    [][/\ (pc = "scan" /\ argi < argc /\ stop_parsing(Special, argv[argi])) =>
            /\ pc' = "stopped"
            /\ argi' = argi + 1
            /\ opts_found' = opts_found
            /\ optvals' = optvals
            /\ Len(log') = Len(log) + 1
            /\ log'[Len(log')].ev = "stop"
       /\ pc = "stopped" =>
            /\ pc' = "done"
            /\ opts_found' = opts_found
            /\ optvals' = optvals
            /\ unprocessed' = SubSeq(argv, argi, argc - 1)
            /\ Len(log') >= Len(log)
            /\ \A k \in 1..Len(log') :
                 IF k <= Len(log) THEN log'[k] = log[k]
                 ELSE log'[k].ev = "error" /\ log'[k].kind = "required"]_vars

\* -n=4 -- -f=a -b: -f=a and -b are the tail, -f stays not found.
C4_Witness ==
    /\ pc = "done"
    /\ has_stop_parsing
    /\ \E k \in 1..Len(log) : log[k].ev = "stop"
    /\ Len(unprocessed) = 2
    /\ unprocessed[1] = <<"-", "f", "=", "a">>
    /\ opts_found = <<FALSE, TRUE>>

(***************************************************************************)
(* C5: when the scan loop has ended without abort, the required check has  *)
(* raised exactly one missing-required error for each required option     *)
(* whose found bit is unset and none for any other option, whatever the    *)
(* handler answered before.                                                *)
(***************************************************************************)
RequiredErrors(o) ==
    { k \in Errors : log[k].kind = "required" /\ log[k].opt = o }

AbortVerdictGiven ==
    \E k \in Errors : log[k].at > 0 /\ ~log[k].verdict

C6_AbortVerdictEndsSession ==
    [][AbortVerdictGiven =>
         /\ opts_found' = opts_found
         /\ optvals' = optvals
         /\ argi' = argi
         /\ \A k \in (Len(log) + 1)..Len(log') : log'[k].ev # "callback"]_vars

(***************************************************************************)
(* C7: a token that is a further occurrence of a named option that is      *)
(* neither multiple<> nor overridable nor a callback, and that was found   *)
(* before, raises a duplicate-option error for that option and leaves the  *)
(* value its first occurrence stored unchanged.                            *)
(***************************************************************************)
\* tok is written as an occurrence of the named option o.
IsOccurrence(tok, o) ==
    \/ tok = o.name
    \/ has_argument(o) /\ starts_with(tok, o.name \o <<"=">>)

NoRepeat(o) == ~o.is_positional /\ ~o.is_multiple /\ ~o.is_overridable /\ ~is_callback(o)

C7_DuplicateKeepsFirst ==
    [][(pc = "scan" /\ argi < argc) =>
         \A o \in 1..NumOpts :
           (NoRepeat(Opts[o]) /\ opts_found[o] /\ IsOccurrence(argv[argi], Opts[o])) =>
             /\ \E k \in (Len(log) + 1)..Len(log') :
                  /\ log'[k].ev = "error"
                  /\ log'[k].kind = "duplicate"
                  /\ log'[k].opt = o
                  /\ log'[k].at = argi
             /\ opts_found'[o]
             /\ optvals'[o] = optvals[o]]_vars

\* -s h -s 4, the handler continuing: -s still holds "h".
C7_Witness ==
    /\ pc = "done"
    /\ cfg = 1
    /\ argv = << <<"-", "s">>, <<"h">>, <<"-", "s">>, <<"4">> >>
    /\ \E k \in Errors : log[k].kind = "duplicate" /\ log[k].opt = 3 /\ log[k].at = 3
    /\ optvals[3] = <<"h">>

(***************************************************************************)
(* C8: no duplicate-option error is ever raised for an overridable option, *)
(* however often it occurs, and after an error-free parse its stored value *)
(* is the value of its last occurrence.                                    *)
(***************************************************************************)
C8_OverridableLastWins ==
    /\ \A k \in Errors : log[k].kind = "duplicate" => ~Opts[log[k].opt].is_overridable
    /\ (pc = "done" /\ NoErrors) =>
         \A o \in Named(Opts) :
           (Opts[o].is_overridable /\ ~Opts[o].is_multiple /\ OccurrencesOf(o) # <<>>) =>
             /\ opts_found[o]
             /\ optvals[o] = convert(Opts[o], OccurrencesOf(o)[Len(OccurrencesOf(o))].raw)

\* Three occurrences; the value of the third, not of the first, is stored.
C8_Witness ==
    /\ pc = "done"
    /\ NoErrors
    /\ \E o \in Named(Opts) :
         /\ Opts[o].is_overridable
         /\ Len(OccurrencesOf(o)) = 3
         /\ OccurrencesOf(o)[1].raw = <<"2">>
         /\ OccurrencesOf(o)[3].raw = <<"1">>
         /\ optvals[o] = <<"1">>

(***************************************************************************)
(* C9: for a named, value-taking, non-short option, in every state the     *)
(* scan can be in, handling the one token name=value and handling the two  *)
(* tokens name value leave that option with the same found bit and the     *)
(* same stored value, for every value including the empty string and       *)
(* whatever the handler answers.                                           *)
(***************************************************************************)
\* Values tried: every token of the configuration, the empty string, a
\* number and a non-number.
C9_Values == Configs[cfg].tokens \cup {<<>>, <<"4">>, <<"z">>, <<"=", "z">>}

\* The parser object of the current state about to handle the arguments a.
SelfWith(a, vs) ==
    [Self(vs) EXCEPT !.argv = a, !.argi = 1, !.argc = Len(a) + 1]

TakesValue(o) == ~o.is_positional /\ ~o.is_short /\ has_argument(o)

C9_SameCell(o, s1, s2) ==
    /\ s1.opts_found[o] = s2.opts_found[o]
    /\ s1.optvals[o] = s2.optvals[o]

\* The two forms are tried in the states the scan reaches on command lines
\* of at most this many arguments.
MaxArgsBefore == 2

C9_EqualsFormSameAsNextArg ==
    (pc = "scan" /\ Len(argv) <= MaxArgsBefore) =>
      \A o \in 1..NumOpts :
        TakesValue(Opts[o]) =>
          \A v \in C9_Values :
            \A vs \in Verdicts(MaxErrorsPerToken) :
              C9_SameCell(o,
                  parse_token(SelfWith(<<Opts[o].name \o <<"=">> \o v>>, vs), Opts),
                  parse_token(SelfWith(<<Opts[o].name, v>>, vs), Opts))

\* -o= and then -o with the empty string as next argument: both forms have
\* acted with the empty value, and -o is found with the empty string stored.
C9_Witness ==
    /\ pc = "done"
    /\ NoErrors
    /\ cfg = 1
    /\ argv = << <<"-", "o", "=">>, <<"-", "o">>, <<>> >>
    /\ opts_found[4]
    /\ optvals[4] = <<>>

(***************************************************************************)
(* C10: with value-taking options -x and -xyz declared in either order,    *)
(* the token -xyz never changes the found bit or the cell of -x; it gives  *)
(* -xyz, if not found yet, the next argument as value, or raises the       *)
(* missing-argument error for -xyz when there is no next argument; and the *)
(* token -x=5 leaves -xyz alone and gives -x, if not found yet, the        *)
(* value 5.                                                                *)
(***************************************************************************)
Name_x == <<"-", "x">>

Name_xyz == <<"-", "x", "y", "z">>

Declared(name) == \E i \in 1..NumOpts : Opts[i].name = name

C10_Untouched(o) == opts_found'[o] = opts_found[o] /\ optvals'[o] = optvals[o]

C10_TokenXyz(x, xyz) ==
    /\ C10_Untouched(x)
    /\ (~opts_found[xyz] /\ argi + 1 < argc) =>
         opts_found'[xyz] /\ optvals'[xyz] = argv[argi + 1] /\ argi' >= argi + 1
    /\ (~opts_found[xyz] /\ argi + 1 = argc) =>
         /\ ~opts_found'[xyz]
         /\ \E k \in (Len(log) + 1)..Len(log') :
              log'[k].kind = "missing_argument" /\ log'[k].opt = xyz

C10_TokenXEquals5(x, xyz) ==
    /\ C10_Untouched(xyz)
    /\ ~opts_found[x] => opts_found'[x] /\ optvals'[x] = <<"5">>

C10_ExactNameBeforePrefix ==
    [][(pc = "scan" /\ argi < argc /\ Declared(Name_x) /\ Declared(Name_xyz)) =>
         /\ argv[argi] = Name_xyz =>
              C10_TokenXyz(optindex(Opts, Name_x), optindex(Opts, Name_xyz))
         /\ argv[argi] = Name_x \o <<"=", "5">> =>
              C10_TokenXEquals5(optindex(Opts, Name_x), optindex(Opts, Name_xyz))]_vars

\* -x declared first: -xyz -x -x=5 gives -xyz the value "-x" and -x the
\* value "5".
C10_Witness ==
    /\ pc = "done"
    /\ NoErrors
    /\ Opts[1].name = Name_x
    /\ argv = << Name_xyz, Name_x, Name_x \o <<"=", "5">> >>
    /\ opts_found = <<TRUE, TRUE>>
    /\ optvals = << <<"5">>, Name_x >>

(***************************************************************************)
(* C11: when a token gives a values<> option (named or positional) a value *)
(* that converts, the step raises an invalid-value error for that option   *)
(* if the value is not in the list, and raises no error and stores the     *)
(* converted value if it is in the list.                                   *)
(***************************************************************************)
\* The text converts to the option's type without a conversion error.
Converts(o, raw) ==
    /\ o.kind = "int" =>
         /\ raw # <<>>
         /\ ~strtoull(raw).erange
         /\ strtoull(raw).pos > Len(raw)
    /\ o.kind = "double" =>
         /\ raw # <<>>
         /\ strtod(raw).pos > Len(raw)

\* The token at the cursor gives option o a value, and o accepts one now.
GivesValueAtCursor(o) ==
    /\ Opts[o].is_multiple \/ Opts[o].is_overridable \/ ~opts_found[o]
    /\ IF Opts[o].is_positional
       THEN /\ \A n \in Named(Opts) : ~starts_with(argv[argi], Opts[n].name)
            /\ \A q \in 1..(o - 1) :
                 Opts[q].is_positional => (~Opts[q].is_multiple /\ opts_found[q])
       ELSE /\ IsOccurrence(argv[argi], Opts[o])
            /\ argv[argi] = Opts[o].name => argi + 1 < argc

\* The values listed in the option's values<> type.
Allowed(o) == { o.values[k] : k \in 1..Len(o.values) }

ErrorRaisedInStep(kind, o) ==
    \E k \in (Len(log) + 1)..Len(log') :
      log'[k].ev = "error" /\ log'[k].kind = kind /\ log'[k].opt = o

StoredInStep(o, value) ==
    /\ opts_found'[o]
    /\ optvals'[o] = IF Opts[o].is_multiple THEN Append(optvals[o], value) ELSE value

C11_ValueSetMembership ==
    [][(pc = "scan" /\ argi < argc) =>
         \A o \in 1..NumOpts :
           (/\ Opts[o].is_values
            /\ GivesValueAtCursor(o)
            /\ Converts(Opts[o], RawValueAtCursor(Opts[o]))) =>
             IF convert(Opts[o], RawValueAtCursor(Opts[o])) \in Allowed(Opts[o])
             THEN /\ Len(log') = Len(log)
                  /\ StoredInStep(o, convert(Opts[o], RawValueAtCursor(Opts[o])))
             ELSE ErrorRaisedInStep("invalid_value", o)]_vars

\* -v=4 -v=7 4 7: 4 is rejected and 7 accepted, for -v and for p.
C11_Witness ==
    /\ pc = "done"
    /\ argv = << <<"-", "v", "=", "4">>, <<"-", "v", "=", "7">>, <<"4">>, <<"7">> >>
    /\ Len(log) = 2
    /\ log[1].kind = "invalid_value" /\ log[1].at = 1 /\ Opts[log[1].opt].name = <<"-", "v">>
    /\ log[2].kind = "invalid_value" /\ log[2].at = 3 /\ Opts[log[2].opt].name = <<"p">>
    /\ \E o \in 1..NumOpts : ~Opts[o].is_positional /\ optvals[o] = 7
    /\ \E o \in 1..NumOpts : Opts[o].is_positional /\ optvals[o] = <<4, 7>>

(***************************************************************************)
(* C12: a step that gives an integer option a decimal value outside the    *)
(* signed range of the integer type raises a conversion error.             *)
(* The code does not do this: the text is parsed with strtoull and the     *)
(* result cast to the signed type, so only values beyond the unsigned      *)
(* range set ERANGE; the values between are wrapped without an error.      *)
(***************************************************************************)
\* An optional sign followed by one or more digits.
IsDecimal(s) ==
    /\ s # <<>>
    /\ LET d == IF s[1] \in {"-", "+"} THEN Tail(s) ELSE s
       IN d # <<>> /\ \A i \in 1..Len(d) : IsDigit(d[i])

\* The number the digits d denote.
RECURSIVE Magnitude(_)
Magnitude(d) ==
    IF d = <<>> THEN 0
    ELSE 10 * Magnitude(SubSeq(d, 1, Len(d) - 1)) + DigitVal(d[Len(d)])

DecimalValue(s) ==
    IF s[1] = "-" THEN 0 - Magnitude(Tail(s))
    ELSE IF s[1] = "+" THEN Magnitude(Tail(s))
    ELSE Magnitude(s)

InSignedRange(n) == 0 - Pow2(IntBits - 1) <= n /\ n <= Pow2(IntBits - 1) - 1

C12_OutOfRangeIsError ==
    [][(pc = "scan" /\ argi < argc) =>
         \A o \in 1..NumOpts :
           (/\ Opts[o].kind = "int"
            /\ GivesValueAtCursor(o)
            /\ IsDecimal(RawValueAtCursor(Opts[o]))
            /\ ~InSignedRange(DecimalValue(RawValueAtCursor(Opts[o])))) =>
             ErrorRaisedInStep("conversion", o)]_vars

(***************************************************************************)
(* C13: in every state of a parse, and so after it, get<> of a             *)
(* single-valued option that is not a flag is absent exactly when the      *)
(* found bit is unset and otherwise points to the cell; get<> of a flag is *)
(* the found bit; get<> of a multiple<> option is a list, empty when the   *)
(* option was not found.  After a parse of zero tokens every option is     *)
(* absent, false or empty.                                                 *)
(***************************************************************************)
\* get<name>() on the result object of the current state.
get(name) == get_impl([optvals |-> optvals, opts_found |-> opts_found], Opts, name)

C13_GetOf(o) ==
    IF is_flag(Opts[o])
    THEN get(Opts[o].name) = opts_found[o]
    ELSE IF Opts[o].is_multiple
    THEN /\ DOMAIN get(Opts[o].name) = 1..Len(get(Opts[o].name))
         /\ ~opts_found[o] => get(Opts[o].name) = <<>>
    ELSE /\ (get(Opts[o].name) = <<>>) <=> ~opts_found[o]
         /\ opts_found[o] => get(Opts[o].name) = <<optvals[o]>>

C13_Absent(o) ==
    IF is_flag(Opts[o]) THEN get(Opts[o].name) = FALSE
    ELSE IF Opts[o].is_multiple THEN get(Opts[o].name) = <<>>
    ELSE get(Opts[o].name) = <<>>

C13_GetReflectsFound ==
    \A o \in 1..NumOpts :
      ~is_callback(Opts[o]) =>
        /\ C13_GetOf(o)
        /\ (Returned /\ argv = <<>>) => C13_Absent(o)

\* -s h: -s points to "h", the positional a and -o are absent.
C13_Witness ==
    /\ pc = "done"
    /\ cfg = 1
    /\ argv = << <<"-", "s">>, <<"h">> >>
    /\ get(<<"-", "s">>) = << <<"h">> >>
    /\ get(<<"-", "o">>) = <<>>
    /\ get(<<"a">>) = <<>>

(***************************************************************************)
(* C14: when parse has returned and the option set has no stop_parsing<>   *)
(* literal or no token matched one, the unprocessed tail has length 0,     *)
(* for every argv and all handler verdicts.                                *)
(* The code does not do this: a value-taking option given as the last      *)
(* token advances argi to argc before the missing-argument error, the loop *)
(* increment makes it argc + 1, and the span is saved with the length      *)
(* size_t(argc - argi) = size_t(-1).                                       *)
(***************************************************************************)
\* unprocessed().size()
TailLength == IF has_stop_parsing THEN unprocessed_args.size ELSE 0

StopMatched == \E k \in 1..Len(log) : log[k].ev = "stop"

C14_TailEmptyWithoutStop ==
    (Returned /\ ~StopMatched) => TailLength = 0

(***************************************************************************)
(* C18: every token that is an occurrence of a func<> option invokes its   *)
(* callback exactly once in that step, after all events of earlier tokens, *)
(* and raises no duplicate-option error, however often the option has      *)
(* occurred before.                                                        *)
(***************************************************************************)
NewEvents == SubSeq(log', Len(log) + 1, Len(log'))

C18_CallbackEveryOccurrence ==
    [][(pc = "scan" /\ argi < argc) =>
         \A o \in 1..NumOpts :
           (/\ is_callback(Opts[o])
            /\ IsOccurrence(argv[argi], Opts[o])
            /\ (has_argument(Opts[o]) /\ argv[argi] = Opts[o].name) => argi + 1 < argc) =>
             /\ Cardinality({ k \in 1..Len(NewEvents) :
                                /\ NewEvents[k].ev = "callback"
                                /\ NewEvents[k].opt = o
                                /\ NewEvents[k].at = argi }) = 1
             /\ \A k \in 1..Len(NewEvents) : NewEvents[k].kind # "duplicate"
             /\ \A k \in 1..Len(log) : log[k].at < argi
             /\ SubSeq(log', 1, Len(log)) = log]_vars

\* -c -k=1 -c -k=1: four callbacks, in this order, and no error.
C18_Witness ==
    /\ pc = "done"
    /\ Len(argv) = 4
    /\ Len(log) = 4
    /\ \A k \in 1..4 : log[k].ev = "callback" /\ log[k].at = k
    /\ log[1].opt = log[3].opt
    /\ log[2].opt = log[4].opt
    /\ Opts[log[1].opt].kind = "func_noarg"
    /\ Opts[log[2].opt].kind = "func_arg"

(***************************************************************************)
(* C19: a token that starts with the name of a flag or of a callback       *)
(* without argument but is longer than the name, '=' included, does not    *)
(* change the flag's found bit and does not invoke the callback.           *)
(***************************************************************************)
C19_FlagNeedsExactName ==
    [][(pc = "scan" /\ argi < argc) =>
         \A o \in 1..NumOpts :
           (/\ ~Opts[o].is_positional
            /\ ~has_argument(Opts[o])
            /\ starts_with(argv[argi], Opts[o].name)
            /\ argv[argi] # Opts[o].name) =>
             /\ opts_found'[o] = opts_found[o]
             /\ \A k \in 1..Len(NewEvents) :
                  ~(NewEvents[k].ev = "callback" /\ NewEvents[k].opt = o)]_vars

\* -g=1 -cx, the handler continuing: -g is not set, the callback of -c was
\* not invoked, both tokens are unrecognized.
C19_Witness ==
    /\ pc = "done"
    /\ argv = << <<"-", "g", "=", "1">>, <<"-", "c", "x">> >>
    /\ opts_found = <<FALSE, FALSE, FALSE>>
    /\ Len(log) = 2
    /\ log[1].kind = "unrecognized"
    /\ log[2].kind = "unrecognized"

(***************************************************************************)
(* C20: when the last token is exactly the name of a value-taking option   *)
(* that is not barred by the duplicate check, the step raises a            *)
(* missing-argument error for that option and leaves its found bit and     *)
(* its cell as they were; a found bit that was unset stays unset.          *)
(***************************************************************************)
C20_MissingArgument ==
    [][(pc = "scan" /\ argi + 1 = argc) =>
         \A o \in 1..NumOpts :
           (/\ ~Opts[o].is_positional
            /\ has_argument(Opts[o])
            /\ argv[argi] = Opts[o].name
            /\ ~(NoRepeat(Opts[o]) /\ opts_found[o])) =>
             /\ ErrorRaisedInStep("missing_argument", o)
             /\ opts_found'[o] = opts_found[o]
             /\ optvals'[o] = optvals[o]
             /\ \A k \in 1..Len(NewEvents) : NewEvents[k].ev # "callback"]_vars

\* -n=4 -f, the handler continuing: -f is reported and stays not found.
C20_Witness ==
    /\ pc = "done"
    /\ argv = << <<"-", "n", "=", "4">>, <<"-", "f">> >>
    /\ \E k \in Errors :
         log[k].kind = "missing_argument" /\ log[k].at = 2 /\ log[k].verdict
    /\ opts_found = <<FALSE, TRUE>>
    /\ optvals[1] = <<>>

(***************************************************************************)
(* C16: every list of descriptors in which two distinct descriptors have   *)
(* the same name fails a static assertion.                                 *)
(* The code does not do this: stop_parsing<> descriptors are filtered out  *)
(* before the check, so a stop_parsing<> literal may have the name of an   *)
(* option, or of another stop_parsing<>.                                   *)
(***************************************************************************)
Instantiated == pc = "instantiated"

SameNameTwice ==
    \E i \in 1..Len(declared) : \E j \in 1..Len(declared) :
        i # j /\ declared[i].name = declared[j].name

C16_DuplicateNamesRejected ==
    (Instantiated /\ SameNameTwice) => failed # {}

(***************************************************************************)
(* C17: if the static assertions pass, every name in the capture list of   *)
(* every ref<> descriptor is the name of a declared descriptor that is not *)
(* a ref<> descriptor; so no accepted list has a self-reference or a       *)
(* reference cycle.                                                        *)
(***************************************************************************)
\* Descriptor i is a ref<> that names descriptor j.
Refers(i, j) ==
    /\ declared[i].is_ref
    /\ \E k \in 1..Len(declared[i].refs) : declared[i].refs[k] = declared[j].name

\* j is reached from i along at most n references.
RECURSIVE Reaches(_, _, _)
Reaches(i, j, n) ==
    /\ n > 0
    /\ \/ Refers(i, j)
       \/ \E m \in 1..Len(declared) : Refers(i, m) /\ Reaches(m, j, n - 1)

C17_ReferencesValid ==
    (Instantiated /\ failed = {}) =>
      /\ \A i \in 1..Len(declared) :
           declared[i].is_ref =>
             \A k \in 1..Len(declared[i].refs) :
               \E j \in 1..Len(declared) :
                 declared[j].name = declared[i].refs[k] /\ ~declared[j].is_ref
      /\ \A i \in 1..Len(declared) : ~Reaches(i, i, Len(declared))

\* An accepted list with a ref<> option, the option it names and a third.
C17_Witness ==
    /\ Instantiated
    /\ failed = {}
    /\ Len(declared) = 3
    /\ \E i \in 1..3 : \E j \in 1..3 : Refers(i, j)

(***************************************************************************)
(* C15: a call of parse starts from a newly constructed parser object      *)
(* whatever the call before left behind, and a call with the same argv and *)
(* the same handler verdicts as the call before returns the same found     *)
(* bits, cells, tail, error flag and outcome.                              *)
(***************************************************************************)
C15_SameCallSameResult ==
    (/\ Returned
     /\ prev # <<>>
     /\ prev[1].argc = argc
     /\ prev[1].argv = argv
     /\ prev[1].verdicts = VerdictsGiven) =>
      prev[1] = Outcome

C15_FreshStart ==
    (pc # "scan" /\ pc' = "scan") =>
      /\ opts_found' = [i \in 1..NumOpts |-> FALSE]
      /\ optvals' = storage_type(Opts)
      /\ ~has_error'
      /\ argi' = 1
      /\ unprocessed_args' = [start |-> 0, size |-> 0]

C21_Values == {<<"v">>, <<"4">>, <<"v", "=">>, <<"-", "x">>, <<"n", "4">>, <<"1", "2">>}

C21_Stored(o, s, v) ==
    /\ s.opts_found[o]
    /\ s.optvals[o] = convert(Opts[o], v)

C21_ShortOptionForms ==
    (pc = "scan" /\ Len(argv) <= MaxArgsBefore) =>
      \A o \in 1..NumOpts :
        (Opts[o].is_short /\ has_argument(Opts[o]) /\ ~opts_found[o]) =>
          \A v \in C21_Values :
            Converts(Opts[o], v) =>
              \A vs \in Verdicts(MaxErrorsPerToken) :
                /\ C21_Stored(o, parse_token(SelfWith(<<Opts[o].name \o v>>, vs), Opts), v)
                /\ C21_Stored(o, parse_token(SelfWith(<<Opts[o].name \o <<"=">> \o v>>, vs), Opts), v)
                /\ C21_Stored(o, parse_token(SelfWith(<<Opts[o].name, v>>, vs), Opts), v)

\* -xv has been handled: -x is found with v stored, and the other two forms
\* are about to be handled for n.
C21_Witness ==
    /\ pc = "scan"
    /\ cfg = 9
    /\ argv = << <<"-", "x", "v">> >>
    /\ argi = argc
    /\ opts_found[1]
    /\ optvals[1] = <<"v">>
    /\ ~opts_found[2]

(***************************************************************************)
(* C22: in every state, for every single-valued option that holds a value  *)
(* and every default, get_or returns the content of the option's cell when *)
(* the found bit is set, whatever the default is, and otherwise the        *)
(* default as a value of the option's type: unchanged for a string, the    *)
(* integer of IntBits bits congruent to it for an integer.                 *)
(***************************************************************************)
\* The options get_or<> can be called on.
HasPointer(o) == ~is_flag(o) /\ ~is_callback(o) /\ ~o.is_multiple

C22_Defaults(o) ==
    IF o.kind = "int" THEN {0, 1, 0 - 1, Pow2(IntBits - 1), Pow2(IntBits) + 3}
    ELSE {<<>>, <<"d">>, <<"h">>}

\* The default as a value of the option's type.
Coerced(o, default_) ==
    IF o.kind = "int"
    THEN CHOOSE x \in (0 - Pow2(IntBits - 1))..(Pow2(IntBits - 1) - 1) :
           (x - default_) % Pow2(IntBits) = 0
    ELSE default_

C22_GetOr ==
    \A o \in 1..NumOpts :
      HasPointer(Opts[o]) =>
        \A default_ \in C22_Defaults(Opts[o]) :
          get_or([optvals |-> optvals, opts_found |-> opts_found], Opts,
                 Opts[o].name, default_)
            = IF opts_found[o] THEN optvals[o] ELSE Coerced(Opts[o], default_)

\* h -s h has been parsed: a and -s are found and hold h, so get_or of -s
\* with default d gives h; b is not found, so get_or of b gives the default.
C22_Witness ==
    /\ pc = "done"
    /\ cfg = 1
    /\ argv = << <<"h">>, <<"-", "s">>, <<"h">> >>
    /\ opts_found[1] /\ opts_found[3] /\ ~opts_found[2] /\ ~opts_found[4]
    /\ get_or([optvals |-> optvals, opts_found |-> opts_found], Opts, <<"-", "s">>, <<"d">>) = <<"h">>
    /\ get_or([optvals |-> optvals, opts_found |-> opts_found], Opts, <<"b">>, Pow2(IntBits) + 3) = 3

(***************************************************************************)
(* C23: whenever a token gives a value to an integer or floating-point     *)
(* option, named or positional, and the value is the empty string or is    *)
(* not a number from its first to its last character, the step raises a    *)
(* conversion error for that option; and whenever a token gives the empty  *)
(* string to a string option (one with a values<> list: if the list has    *)
(* the empty string), the step raises no error and stores the empty        *)
(* string.                                                                 *)
(***************************************************************************)
\* The text after leading white space and one sign.
RECURSIVE C23_Body(_)
C23_Body(raw) ==
    IF raw # <<>> /\ IsSpace(raw[1]) THEN C23_Body(Tail(raw))
    ELSE IF raw # <<>> /\ raw[1] \in {"-", "+"} THEN Tail(raw)
    ELSE raw

\* The whole text is a number of the option's type: digits, for a double
\* with at most one decimal point among them.
C23_IsNumber(o, raw) ==
    /\ \E i \in 1..Len(C23_Body(raw)) : IsDigit(C23_Body(raw)[i])
    /\ \A i \in 1..Len(C23_Body(raw)) :
         IsDigit(C23_Body(raw)[i]) \/ (o.kind = "double" /\ C23_Body(raw)[i] = ".")
    /\ Cardinality({ i \in 1..Len(C23_Body(raw)) : C23_Body(raw)[i] = "." }) <= 1

C23_EmptyOrTrailingIsError ==
    [][(pc = "scan" /\ argi < argc) =>
         \A o \in 1..NumOpts :
           GivesValueAtCursor(o) =>
             /\ (/\ Opts[o].kind \in {"int", "double"}
                 /\ ~C23_IsNumber(Opts[o], RawValueAtCursor(Opts[o]))) =>
                  ErrorRaisedInStep("conversion", o)
             /\ (/\ Opts[o].kind = "string"
                 /\ ~Opts[o].is_ref
                 /\ RawValueAtCursor(Opts[o]) = <<>>
                 /\ Opts[o].is_values => <<>> \in Allowed(Opts[o])) =>
                  /\ Len(log') = Len(log)
                  /\ StoredInStep(o, <<>>)]_vars

\* -s= -e= -i= has been scanned with a handler that continues: the string
\* option and the values<""> option hold the empty string, and the only
\* error is the conversion error of -i for the empty string.
C23_Witness ==
    /\ cfg = 10
    /\ argv = << <<"-", "s", "=">>, <<"-", "e", "=">>, <<"-", "i", "=">> >>
    /\ pc = "done"
    /\ opts_found[1] /\ optvals[1] = <<>>
    /\ opts_found[3] /\ optvals[3] = <<>>
    /\ Len(log) = 1
    /\ log[1].kind = "conversion" /\ log[1].opt = 2 /\ log[1].at = 3

(***************************************************************************)
(* C24: for every option set that compiles, the first line of the text     *)
(* help() returns is, for each positional descriptor in the order of the   *)
(* declaration, <name> if it is required and [<name>] if it is not, each   *)
(* followed by one space, and then [options].                              *)
(***************************************************************************)
\* The index of the first "\n" of a text, or one past its end.
LineEnd(text) ==
    CHOOSE i \in 1..(Len(text) + 1) :
        /\ i <= Len(text) => text[i] = "\n"
        /\ \A j \in 1..(i - 1) : text[j] # "\n"

\* The lines of a text: the pieces that "\n" ends.
RECURSIVE Lines(_)
Lines(text) ==
    IF text = <<>> THEN <<>>
    ELSE <<SubSeq(text, 1, LineEnd(text) - 1)>>
         \o Lines(SubSeq(text, LineEnd(text) + 1, Len(text)))

RECURSIVE C24_Expected(_)
C24_Expected(D) ==
    IF D = <<>> THEN <<"[", "o", "p", "t", "i", "o", "n", "s", "]">>
    ELSE IF ~Head(D).is_positional THEN C24_Expected(Tail(D))
    ELSE IF Head(D).is_required
    THEN <<"<">> \o Head(D).name \o <<">", " ">> \o C24_Expected(Tail(D))
    ELSE <<"[", "<">> \o Head(D).name \o <<">", "]", " ">> \o C24_Expected(Tail(D))

C24_UsageLine ==
    pc = "help" => Lines(help_text)[1] = C24_Expected(declared)

\* Declared: the required positional b, a flag, the optional positional ab.
\* The first line keeps b before ab, and only ab is in brackets.
C24_Witness ==
    /\ pc = "help"
    /\ Len(declared) = 3
    /\ declared[1].name = <<"b">> /\ declared[1].is_required
    /\ declared[2].name = <<"-", "a", "b">>
    /\ declared[3].name = <<"a", "b">> /\ ~declared[3].is_required
    /\ Lines(help_text)[1] = <<"<", "b", ">", " ", "[", "<", "a", "b", ">", "]", " ", "[", "o", "p", "t", "i", "o", "n", "s", "]">>

(***************************************************************************)
(* C25: for every option set that compiles and every order of its          *)
(* declaration, the rows under Arguments: are the positional options, the  *)
(* rows under Options: the other options and the rows under Supported      *)
(* option values: the options with a values<> list, one row each, and in   *)
(* each of the three blocks the names of the rows increase strictly in     *)
(* lexicographic order from top to bottom.                                 *)
(***************************************************************************)
\* The rows that follow the line header, up to the next empty line.
RECURSIVE RowsFrom(_, _)
RowsFrom(L, i) ==
    IF i > Len(L) \/ L[i] = <<>> THEN <<>> ELSE <<L[i]>> \o RowsFrom(L, i + 1)

Block(L, header) ==
    IF \E i \in 1..Len(L) : L[i] = header
    THEN RowsFrom(L, (CHOOSE i \in 1..Len(L) : L[i] = header) + 1)
    ELSE <<>>

\* The text of a row after its indentation, up to the first space or colon.
RECURSIVE RowWord(_, _)
RowWord(row, i) ==
    IF i > Len(row) \/ row[i] \in {" ", ":"} THEN <<>>
    ELSE <<row[i]>> \o RowWord(row, i + 1)

\* The option name a row begins with, without the <> of a positional option.
RowName(row) ==
    IF RowWord(row, 5)[1] = "<"
    THEN SubSeq(RowWord(row, 5), 2, Len(RowWord(row, 5)) - 1)
    ELSE RowWord(row, 5)

RowNames(rows) == [k \in 1..Len(rows) |-> RowName(rows[k])]

Increasing(names) ==
    \A i \in 1..Len(names) : \A j \in 1..Len(names) :
        i < j => string_view_less(names[i], names[j])

\* The rows are one row for each of the options D, sorted by name.
C25_BlockSorted(rows, D) ==
    /\ Len(rows) = Len(D)
    /\ { RowName(rows[k]) : k \in 1..Len(rows) } = { D[k].name : k \in 1..Len(D) }
    /\ Increasing(RowNames(rows))

C25_RowsSorted ==
    pc = "help" =>
      /\ C25_BlockSorted(Block(Lines(help_text), <<"A", "r", "g", "u", "m", "e", "n", "t", "s", ":">>),
                         SelectSeq(filter_regular_option(declared), is_positional))
      /\ C25_BlockSorted(Block(Lines(help_text), <<"O", "p", "t", "i", "o", "n", "s", ":">>),
                         SelectSeq(filter_regular_option(declared), is_not_positional))
      /\ C25_BlockSorted(Block(Lines(help_text), <<"S", "u", "p", "p", "o", "r", "t", "e", "d", " ", "o", "p", "t", "i", "o", "n", " ", "v", "a", "l", "u", "e", "s", ":">>),
                         SelectSeq(filter_regular_option(declared), is_values_option))

\* Declared: -b, ab, -a, all three with a values<> list.  The options block
\* has -a above -b, the values block -a, -b, ab.
C25_Witness ==
    /\ pc = "help"
    /\ Len(declared) = 3
    /\ declared[1].name = <<"-", "b">>
    /\ declared[2].name = <<"a", "b">>
    /\ declared[3].name = <<"-", "a">>
    /\ RowNames(Block(Lines(help_text), <<"O", "p", "t", "i", "o", "n", "s", ":">>)) = << <<"-", "a">>, <<"-", "b">> >>
    /\ RowNames(Block(Lines(help_text), <<"S", "u", "p", "p", "o", "r", "t", "e", "d", " ", "o", "p", "t", "i", "o", "n", " ", "v", "a", "l", "u", "e", "s", ":">>))
         = << <<"-", "a">>, <<"-", "b">>, <<"a", "b">> >>
    /\ RowNames(Block(Lines(help_text), <<"A", "r", "g", "u", "m", "e", "n", "t", "s", ":">>)) = << <<"a", "b">> >>

(***************************************************************************)
(* C26: whenever a step raises a conversion error for an option and the    *)
(* handler answers true, the option's found bit and its cell are after the *)
(* step what they were before it.                                          *)
(***************************************************************************)
\* The step raised an error of that kind for option o and the handler said
\* to go on.
ContinuedErrorInStep(kind, o) ==
    \E k \in (Len(log) + 1)..Len(log') :
      /\ log'[k].ev = "error" /\ log'[k].kind = kind /\ log'[k].opt = o
      /\ log'[k].verdict

C26_FailedConversionStoresNothing ==
    [][(pc = "scan" /\ argi < argc) =>
         \A o \in 1..NumOpts :
           ContinuedErrorInStep("conversion", o) =>
             /\ opts_found'[o] = opts_found[o]
             /\ optvals'[o] = optvals[o]]_vars

(***************************************************************************)
(* C27: a step whose token begins with the name of a named option that is  *)
(* not a short option, without being that name or that name followed by    *)
(* '=', raises no error for that option, whether or not the option has     *)
(* been found before.                                                      *)
(***************************************************************************)
ProperPrefixOnly(tok, o) ==
    /\ ~o.is_positional
    /\ ~o.is_short
    /\ starts_with(tok, o.name)
    /\ tok # o.name
    /\ ~starts_with(tok, o.name \o <<"=">>)

C27_PrefixRejectedSilently ==
    [][(pc = "scan" /\ argi < argc) =>
         \A o \in 1..NumOpts :
           ProperPrefixOnly(argv[argi], Opts[o]) =>
             \A k \in (Len(log) + 1)..Len(log') :
               log'[k].ev = "error" => log'[k].opt # o]_vars

(***************************************************************************)
(* C28: a step that raises a duplicate-option error which the handler      *)
(* answers with true does nothing else: that error is the only event of    *)
(* the step, and no found bit and no cell changes.                         *)
(***************************************************************************)
C28_DuplicateConsumesToken ==
    [][(pc = "scan" /\ argi < argc) =>
         \A o \in 1..NumOpts :
           ContinuedErrorInStep("duplicate", o) =>
             /\ Len(log') = Len(log) + 1
             /\ opts_found' = opts_found
             /\ optvals' = optvals]_vars

(***************************************************************************)
(* C29: every iteration of the scan loop calls the error handler at most   *)
(* once.                                                                   *)
(***************************************************************************)
C29_OneErrorPerToken ==
    [][(pc = "scan" /\ argi < argc) =>
         Cardinality({ k \in (Len(log) + 1)..Len(log') : log'[k].ev = "error" }) <= 1]_vars

(***************************************************************************)
(* C30: in every state, the cell of a found option with a values<> list    *)
(* holds a listed value, and every element of the cell if the option is    *)
(* multiple<>.                                                             *)
(***************************************************************************)
C30_StoredValueAllowed ==
    \A o \in 1..NumOpts :
      (Opts[o].is_values /\ opts_found[o]) =>
        IF Opts[o].is_multiple
        THEN \A k \in 1..Len(optvals[o]) : optvals[o][k] \in Allowed(Opts[o])
        ELSE optvals[o] \in Allowed(Opts[o])

(***************************************************************************)
(* C31: in every state of a session the cursor satisfies                   *)
(* 1 <= argi <= max(argc, 1), so that argc - argi, the length of the span  *)
(* saved when parse returns, is not negative.                              *)
(* The code does not do this: handle_opt_with_arg advances argi to argc    *)
(* before it raises the missing-argument error, and when the handler       *)
(* continues the loop increment makes it argc + 1.                         *)
(***************************************************************************)
C31_CursorInRange ==
    pc # "idle" => (1 <= argi /\ argi <= Max(argc, 1))

(***************************************************************************)
(* C32: once the handler has returned false for a missing-required error,  *)
(* the session aborts and no missing-required error is reported for a      *)
(* later descriptor.                                                       *)
(* The code does not do this: Foreach visits every descriptor whatever the *)
(* handler answered, and each handle_error assigns has_error anew.         *)
(***************************************************************************)
C32_RequiredCheckAborts ==
    \A k \in Errors :
      (log[k].kind = "required" /\ ~log[k].verdict) =>
        /\ \A j \in Errors : j > k => log[j].kind # "required"
        /\ pc = "done" => has_error

(***************************************************************************)
(* C33: a callback with argument receives the descriptor's name as its     *)
(* option-name argument, for the token `name=value` as for the tokens      *)
(* `name value`.                                                           *)
(* The code does not do this: for `name=value` handle_opt_with_arg cuts    *)
(* the name after the '=', so the callback receives `name=`.               *)
(***************************************************************************)
C33_CallbackNameIsDescriptorName ==
    \A k \in 1..Len(log) :
      (log[k].ev = "callback" /\ Opts[log[k].opt].kind = "func_arg") =>
        log[k].name = Opts[log[k].opt].name

(***************************************************************************)
(* C34: when the token at the cursor is exactly the name of a value-taking *)
(* option that accepts a value now, and a token follows, that next token   *)
(* is the option's value whatever it looks like: the step stores its       *)
(* conversion (or hands it to the callback, or raises the conversion error *)
(* for it), touches no other option, does not stop the scan, and moves the *)
(* cursor past both tokens.                                                *)
(***************************************************************************)
\* The element the step has put into the cell of option o.
C34_NewElement(o) ==
    OwnValue(Opts[o], IF Opts[o].is_multiple
                      THEN optvals'[o][Len(optvals'[o])]
                      ELSE optvals'[o])

C34_ValueTaken(o, raw) ==
    IF is_callback(Opts[o])
    THEN \E k \in 1..Len(NewEvents) :
           /\ NewEvents[k].ev = "callback"
           /\ NewEvents[k].opt = o
           /\ NewEvents[k].val = raw
    ELSE /\ opts_found'[o]
         /\ Opts[o].is_multiple => Len(optvals'[o]) = Len(optvals[o]) + 1
         /\ IF Converts(Opts[o], raw)
            THEN C34_NewElement(o) = convert(Opts[o], raw)
            ELSE ErrorRaisedInStep("conversion", o)

C34_NextTokenIsValue ==
    [][(pc = "scan" /\ argi + 1 < argc) =>
         \A o \in 1..NumOpts :
           (/\ ~Opts[o].is_positional
            /\ has_argument(Opts[o])
            /\ argv[argi] = Opts[o].name
            /\ ~(NoRepeat(Opts[o]) /\ opts_found[o])) =>
             /\ C34_ValueTaken(o, argv[argi + 1])
             /\ \A q \in 1..NumOpts : q # o => C10_Untouched(q)
             /\ \A k \in 1..Len(NewEvents) :
                  /\ NewEvents[k].ev # "stop"
                  /\ NewEvents[k].ev = "callback" => NewEvents[k].opt = o
                  /\ NewEvents[k].kind \notin {"unrecognized", "missing_argument"}
             /\ pc' \in {"scan", "failed"}
             /\ pc' = "scan" => argi' = argi + 2]_vars

\* -f -- -n=4: the value of -f is "--", the scan did not stop there, and
\* -n=4 after it was parsed.
C34_Witness ==
    /\ pc = "done"
    /\ argv = << <<"-", "f">>, <<"-", "-">>, <<"-", "n", "=", "4">> >>
    /\ ~StopMatched
    /\ opts_found = <<TRUE, TRUE>>
    /\ optvals = << <<"-", "-">>, 4 >>
    /\ log = <<>>

(***************************************************************************)
(* C35: a token that no named option's name is a prefix of goes to the     *)
(* first positional, in declaration order, that is multiple<> or not yet   *)
(* found, and to no other option; if there is none, it is unrecognized.    *)
(* Hence a positional declared after a multiple<> positional is never      *)
(* found and keeps its initial cell.                                       *)
(***************************************************************************)
\* The positionals that accept a token in the current state.
C35_Accepting ==
    { p \in 1..NumOpts :
        Opts[p].is_positional /\ (Opts[p].is_multiple \/ ~opts_found[p]) }

C35_First(P) == CHOOSE p \in P : \A q \in P : p <= q

C35_GoesTo(p, raw) ==
    /\ StoredInStep(p, convert(Opts[p], raw))
    /\ ~Converts(Opts[p], raw) => ErrorRaisedInStep("conversion", p)
    /\ \A q \in 1..NumOpts : q # p => C10_Untouched(q)
    /\ \A k \in 1..Len(NewEvents) : NewEvents[k].kind # "unrecognized"

C35_Shadowed(q) ==
    \E p \in 1..(q - 1) : Opts[p].is_positional /\ Opts[p].is_multiple

C35_PositionalDispatch ==
    [][(pc = "scan" /\ argi < argc) =>
         /\ (/\ ~stop_parsing(Special, argv[argi])
             /\ \A n \in Named(Opts) : ~starts_with(argv[argi], Opts[n].name)) =>
              IF C35_Accepting = {}
              THEN /\ \A q \in 1..NumOpts : C10_Untouched(q)
                   /\ ErrorRaisedInStep("unrecognized", 0)
              ELSE C35_GoesTo(C35_First(C35_Accepting), argv[argi])
         /\ \A q \in 1..NumOpts :
              (Opts[q].is_positional /\ C35_Shadowed(q)) =>
                ~opts_found'[q] /\ optvals'[q] = storage_type(Opts)[q]]_vars

\* h k h k: a takes the first token, m the three others, c nothing.
C35_Witness ==
    /\ pc = "done"
    /\ log = <<>>
    /\ \E a, m, c \in 1..NumOpts :
         /\ a < m /\ m < c
         /\ Opts[a].is_positional /\ ~Opts[a].is_multiple
         /\ Opts[m].is_positional /\ Opts[m].is_multiple
         /\ Opts[c].is_positional
         /\ optvals[a] = <<"h">>
         /\ optvals[m] = << <<"k">>, <<"h">>, <<"k">> >>
         /\ ~opts_found[c]

(***************************************************************************)
(* C36: the tuple a ref<> option stores is a copy.  A step whose token is  *)
(* not an occurrence of the ref<> option leaves its cell as it is, a step  *)
(* that is one only appends to (multiple<>) or replaces the cell, so no    *)
(* tuple stored earlier changes when a referenced option is matched again; *)
(* and a step that stores a tuple leaves the found bits and cells of the   *)
(* referenced options unchanged.                                           *)
(***************************************************************************)
\* The token at the cursor is written as an occurrence of option o.
C36_Matches(o) ==
    IF Opts[o].is_positional
    THEN \A n \in Named(Opts) : ~starts_with(argv[argi], Opts[n].name)
    ELSE IsOccurrence(argv[argi], Opts[o])

C36_EarlierTuplesKept(o) ==
    IF Opts[o].is_multiple
    THEN /\ Len(optvals'[o]) >= Len(optvals[o])
         /\ SubSeq(optvals'[o], 1, Len(optvals[o])) = optvals[o]
    ELSE ~C36_Matches(o) => optvals'[o] = optvals[o]

C36_SnapshotIsCopy ==
    [][(pc = "scan" /\ argi < argc) =>
         \A o \in 1..NumOpts :
           Opts[o].is_ref =>
             /\ C36_EarlierTuplesKept(o)
             /\ ~C36_Matches(o) => optvals'[o] = optvals[o]
             /\ optvals'[o] # optvals[o] =>
                  \A k \in 1..Len(Opts[o].refs) :
                    C10_Untouched(optindex(Opts, Opts[o].refs[k]))]_vars

\* -x=1 -y=a -x=2 -m=1: the tuple of -y still holds "1" for -x and the empty
\* list for -m, while -x now holds "2" and -m the list [1].
C36_Witness ==
    /\ pc = "done"
    /\ log = <<>>
    /\ Declared(<<"-", "y">>) /\ Declared(<<"-", "x">>) /\ Declared(<<"-", "m">>)
    /\ optvals[optindex(Opts, <<"-", "y">>)] = << << <<"a">>, << <<"1">> >>, <<>> >> >>
    /\ optvals[optindex(Opts, <<"-", "x">>)] = <<"2">>
    /\ optvals[optindex(Opts, <<"-", "m">>)] = <<1>>

(***************************************************************************)
(* C37: one iteration of the scan loop changes the found bit or the cell   *)
(* of at most one option and leaves those of all others as they were, and  *)
(* from the start of the scan until parse returns no found bit goes from   *)
(* set to unset.                                                           *)
(***************************************************************************)
\* The options whose found bit or cell the step changes.
C37_Changed ==
    { o \in 1..NumOpts : opts_found'[o] # opts_found[o] \/ optvals'[o] # optvals[o] }

C37_OneOptionPerIteration ==
    [][(pc = "scan" \/ pc = "stopped") =>
         /\ Cardinality(C37_Changed) <= 1
         /\ \A o \in 1..NumOpts : opts_found[o] => opts_found'[o]]_vars

\* Three options found one after the other, each by a token of its own.
C37_Witness ==
    /\ pc = "done"
    /\ log = <<>>
    /\ Len(argv) = 3
    /\ Cardinality({ o \in 1..NumOpts : opts_found[o] }) = 3

(***************************************************************************)
(* C38: for an option set of named options that are neither multiple<> nor *)
(* ref<>, with no name a prefix of another, whenever a parse has returned  *)
(* without error from an argv in which every option occurs at most once,   *)
(* the parse of every argv that has the same occurrences (each the name    *)
(* with its value, in one or two tokens) in another order is error-free    *)
(* too and returns the same found bits and the same stored values.         *)
(***************************************************************************)
C38_Applies ==
    /\ \A o \in 1..NumOpts :
         ~Opts[o].is_positional /\ ~Opts[o].is_multiple /\ ~Opts[o].is_ref
    /\ \A o, q \in 1..NumOpts :
         o # q => ~starts_with(Opts[q].name, Opts[o].name)

\* The tokens of the k-th occurrence of occ in the argv a.
C38_Tokens(a, occ, k) ==
    SubSeq(a, occ[k].at, IF k < Len(occ) THEN occ[k + 1].at - 1 ELSE Len(a))

\* The argv with the occurrences in the order f[1], f[2], ...
RECURSIVE C38_Permuted(_, _, _, _)
C38_Permuted(a, occ, f, k) ==
    IF k > Len(occ) THEN <<>>
    ELSE C38_Tokens(a, occ, f[k]) \o C38_Permuted(a, occ, f, k + 1)

C38_Permutations(n) ==
    { f \in [1..n -> 1..n] : \A i, j \in 1..n : i # j => f[i] # f[j] }

\* A handler that continues after every error.
C38_Continue == [k \in 1..(3 * (MaxArgs + 1)) |-> TRUE]

\* r is what the parse of the permuted argv ended with.
C38_SameResult(r) ==
    /\ \A k \in 1..Len(r.log) : r.log[k].ev # "error"
    /\ r.opts_found = opts_found
    /\ r.optvals = optvals

C38_SameFor(occ) ==
    (/\ \A k \in 1..Len(occ) : occ[k].opt # 0
     /\ \A i, j \in 1..Len(occ) : i # j => occ[i].opt # occ[j].opt) =>
      \A f \in C38_Permutations(Len(occ)) :
        C38_SameResult(parse(C38_Permuted(argv, occ, f, 1), C38_Continue,
                             Opts, Special))

C38_OrderIndependent ==
    (pc = "done" /\ NoErrors /\ ~StopMatched /\ C38_Applies) =>
      C38_SameFor(Occurrences(Opts, Special, argv, 1))

\* -n=4 -f -n=4: -n with the value 4 in one token, -f with the value "-n=4"
\* in two; -f -n=4 -n=4 gives the same.
C38_Witness ==
    /\ pc = "done"
    /\ NoErrors
    /\ C38_Applies
    /\ argv = << <<"-", "n", "=", "4">>, <<"-", "f">>, <<"-", "n", "=", "4">> >>
    /\ Len(Occurrences(Opts, Special, argv, 1)) = 2
    /\ optvals = << <<"-", "n", "=", "4">>, 4 >>

(***************************************************************************)
(* C39: every call of parse returns.  Each iteration that stays in the     *)
(* loop moves the cursor forward by at least one token, and every session, *)
(* those with argc = 0 (and no argv) and argc = 1 included, ends: done     *)
(* (after the end of argv or after a stop_parsing<> literal) or failed.    *)
(***************************************************************************)
C39_Terminates ==
    /\ [][(pc = "scan" /\ pc' = "scan") => argi' > argi]_vars
    /\ [][pc = "scan" => pc' \in {"scan", "stopped", "failed", "done"}]_vars
    /\ (pc = "scan") ~> (pc = "done" \/ pc = "failed")

\* parse(0, nullptr) has returned.
C39_Witness ==
    /\ pc = "done"
    /\ argc = 0
    /\ argv = <<>>

====
